---------------------------- MODULE Spec2Model ----------------------------
(***************************************************************************)
(* Contrast specification engine of ibc_public/utils_contrasts.py.        *)
(*                                                                         *)
(* The library is a set of pure functions.  The state of the model is the  *)
(* current call: which function was called (op), its arguments             *)
(* (paradigm_id, design_matrix_columns, contrast) and its outcome          *)
(* (result).  The mapping `contrast` is the caller's dictionary handed to  *)
(* the two extension functions, which update it in place.  `first` keeps   *)
(* the first call of a sequence of make_contrasts calls and its outcome,   *)
(* and `db` is the image catalog handed to anova of                        *)
(* data_paper_scripts/global_stat.py.                                      *)
(*                                                                         *)
(* Numbers are numpy float64, held as <<sign, mantissa, exponent>> and     *)
(* computed with IEEE 754 rounding to nearest, as numpy computes them.     *)
(***************************************************************************)
EXTENDS Integers, Sequences, FiniteSets, TLC

VARIABLES op, paradigm_id, design_matrix_columns, contrast, result, first, db

vars == <<op, paradigm_id, design_matrix_columns, contrast, result, first, db>>

\* ------------------------------------------------------------------ bounds
\* Longest list of free column labels handed to the elementary builder and
\* to the two extension functions.
MaxCols == 3
\* Most extra columns (nuisance, derivative, unrelated) put around the
\* columns a paradigm reads.
MaxExtra == 1
\* Longest sequence of make_contrasts calls of one program.
MaxCalls == 3
\* Most images of a catalog handed to anova.
MaxRows == 3

\* ------------------------------------------------------- general helpers
Range(s) == {s[i] : i \in DOMAIN s}

Max(S) == CHOOSE m \in S : \A x \in S : x <= m

Abs(n) == IF n < 0 THEN -n ELSE n

\* The one element of a set of one element: Only({F(v) : v \in {e}}) is F(e)
\* with e evaluated once.
Only(S) == CHOOSE r \in S : TRUE

\* The sequence f with every element evaluated.
Strict(f) == Only({SubSeq(v, 1, Len(v)) : v \in {f}})

\* ------------------------------------------------------ float64 arithmetic
\* The code's numbers are numpy float64.  A float64 is the triple
\* <<sign, mantissa, exponent>>, for sign * mantissa * 2^exponent: sign is
\* -1, 0 or 1, the mantissa is an odd natural number below 2^53 and 0 is
\* <<0, <<>>, 0>>, so that two triples are equal exactly when the doubles are.
\* The mantissa is beyond the 32-bit integers available here and is held as
\* its digits.  Every operation computes the exact result and rounds it once
\* to 53 binary digits, as IEEE 754 does: .2 is
\* <<1, <<19661, 6553, 13107, 102>>, -54>> = 3602879701896397 / 2^54.
\* The exponent is not bounded: infinities, NaN, subnormal numbers and the
\* sign of zero are not represented (the numbers of this program lie
\* between 1e-16 and 1e3 in magnitude, or are 0).
\* The digits of a natural number: base 2^15, lowest digit first, no leading
\* zero digit; <<>> is 0.
Limb == 2^15

\* digit i of a, 0 outside its digits
DigitAt(a, i) == IF 1 <= i /\ i <= Len(a) THEN a[i] ELSE 0

\* the number of binary digits of a
BitLen(a) ==
    IF a = <<>> THEN 0
    ELSE 15 * (Len(a) - 1) + (CHOOSE k \in 1..15 : a[Len(a)] \div 2^(k - 1) = 1)

\* binary digit k of a, counted from 0
Bit(a, k) == (DigitAt(a, k \div 15 + 1) \div 2^(k % 15)) % 2

\* the number of zero binary digits at the low end of a, for a > 0
TrailingZeros(a) == CHOOSE k \in 0..(15 * Len(a)) :
                        Bit(a, k) = 1 /\ \A j \in 0..(k - 1) : Bit(a, j) = 0

\* the first n digits without the leading zero digits
Trimmed(digits, n) ==
    SubSeq(digits, 1, Max({0} \cup {i \in 1..n : digits[i] # 0}))

\* a[i] * b[j], 0 outside the digits
Product(a, b, i, j) ==
    IF 1 <= i /\ i <= Len(a) /\ 1 <= j /\ j <= Len(b) THEN a[i] * b[j] ELSE 0

\* What the products of the digits of a and b add to digit k of a * b, for
\* a below 2^60: the low halves of the products a[i] * b[k + 1 - i] and the
\* high halves of the products a[i] * b[k - i]
Column(a, b, k) ==
    (Product(a, b, 1, k) % Limb) + (Product(a, b, 2, k - 1) % Limb)
    + (Product(a, b, 3, k - 2) % Limb) + (Product(a, b, 4, k - 3) % Limb)
    + (Product(a, b, 1, k - 1) \div Limb) + (Product(a, b, 2, k - 2) \div Limb)
    + (Product(a, b, 3, k - 3) \div Limb) + (Product(a, b, 4, k - 4) \div Limb)

\* The quotient digit of r by d estimated from the two leading digits of r
\* and the leading digit of d, which is at least Limb / 2: the digit or
\* up to 2 more (Knuth, The Art of Computer Programming 4.3.1, Theorem B)
Estimate(r, d) ==
    IF DigitAt(r, Len(d) + 1) >= d[Len(d)] THEN Limb - 1
    ELSE (DigitAt(r, Len(d) + 1) * Limb + DigitAt(r, Len(d))) \div d[Len(d)]

\* The arithmetic is one recursive definition, F64(rule, operands): a rule is
\* a step of an operation, and the operands of a step are evaluated once.
\* The functions of the program that compute with numbers are evaluated as
\* rules of it as well (Function, defined after them).
RECURSIVE F64(_, _)
RECURSIVE Function(_, _)

\* float(n) for an integer n below 2^31
Num(n) == F64("Num", <<n>>)

Zero == <<0, <<>>, 0>>

One == <<1, <<1>>, 0>>

Half == <<1, <<1>>, -1>>

\* -x, x + y, x - y, x * y and x / y (y not 0) of float64 numbers
RNeg(x) == F64("RNeg", <<x>>)

RAdd(x, y) == F64("RAdd", <<x, y>>)

RSub(x, y) == RAdd(x, RNeg(y))

RMul(x, y) == F64("RMul", <<x, y>>)

RDiv(x, y) == F64("RDiv", <<x, y>>)

\* The float64 nearest to the fraction n/d, which is the value of a decimal
\* literal: .2 is Rat(2, 10)
Rat(n, d) == RDiv(Num(n), Num(d))

\* The rules, on natural numbers a, b (digits) and on float64 numbers x, y:
\*   BigAdd <<a, b>>       a + b; a carry enters digit i when a lower digit
\*                         produces one and the digits in between pass it on
\*   BigSub <<a, b>>       a - b for a >= b, the borrows likewise
\*   BigLess <<a, b>>      a < b
\*   BigMulSmall <<a, c>>  a * c for one digit c
\*   BigMul <<a, b>>       a * b for a and b below 2^60
\*   BigShiftLeft <<a, k>>   a * 2^k
\*   BigShiftRight <<a, k>>  a \div 2^k
\*   DivLimb <<d, <<q, r>> >>  one more digit of a quotient: with r < d,
\*                         <<q * Limb + (r * Limb) \div d, (r * Limb) % d>>
\*   Canonical <<sign, m, e>>  sign * m * 2^e with an odd mantissa, m > 0
\*   Float <<sign, m, e, inexact>>  the float64 nearest to sign * m * 2^e,
\*                         ties to the even mantissa; inexact tells that the
\*                         exact value lies above m * 2^e (digits were cut)
\*   Divide <<sign, e, a, d>>  sign * (a / d) * 2^(e + 60) for d / 4 <= a < d,
\*                         from 60 binary digits of the quotient
F64(rule, operands) ==
    CHOOSE computed \in {
      CASE rule = "BigAdd" ->
            LET s(i) == DigitAt(v[1], i) + DigitAt(v[2], i)
                carry(i) ==
                    IF \E j \in 1..(i - 1) :
                            /\ s(j) >= Limb
                            /\ \A k \in (j + 1)..(i - 1) : s(k) = Limb - 1
                    THEN 1 ELSE 0
            IN  Trimmed([i \in 1..(Max({Len(v[1]), Len(v[2])}) + 1) |->
                            (s(i) + carry(i)) % Limb],
                        Max({Len(v[1]), Len(v[2])}) + 1)
        [] rule = "BigSub" ->
            LET borrow(i) ==
                    IF \E j \in 1..(i - 1) :
                            /\ v[1][j] < DigitAt(v[2], j)
                            /\ \A k \in (j + 1)..(i - 1) : v[1][k] = DigitAt(v[2], k)
                    THEN 1 ELSE 0
            IN  Trimmed([i \in 1..Len(v[1]) |->
                            (v[1][i] - DigitAt(v[2], i) - borrow(i) + Limb) % Limb],
                        Len(v[1]))
        [] rule = "BigLess" ->
            IF Len(v[1]) # Len(v[2]) THEN Len(v[1]) < Len(v[2])
            ELSE \E k \in 1..Len(v[1]) :
                    /\ v[1][k] < v[2][k]
                    /\ \A j \in (k + 1)..Len(v[1]) : v[1][j] = v[2][j]
        [] rule = "BigMulSmall" ->
            F64("BigAdd",
                <<SubSeq([i \in 1..Len(v[1]) |-> (v[1][i] * v[2]) % Limb],
                         1, Len(v[1])),
                  <<0>> \o [i \in 1..Len(v[1]) |-> (v[1][i] * v[2]) \div Limb]>>)
        [] rule = "BigMul" ->
            F64("BigAdd",
                <<SubSeq([k \in 1..8 |-> Column(v[1], v[2], k) % Limb], 1, 8),
                  <<0>> \o [k \in 1..8 |-> Column(v[1], v[2], k) \div Limb]>>)
        [] rule = "BigShiftLeft" ->
            Trimmed([i \in 1..(Len(v[1]) + (v[2] \div 15) + 1) |->
                        (DigitAt(v[1], i - (v[2] \div 15)) % 2^(15 - (v[2] % 15)))
                            * 2^((v[2] % 15))
                        + (DigitAt(v[1], i - (v[2] \div 15) - 1)
                            \div 2^(15 - (v[2] % 15)))],
                    Len(v[1]) + (v[2] \div 15) + 1)
        [] rule = "BigShiftRight" ->
            Trimmed([i \in 1..Len(v[1]) |->
                        (DigitAt(v[1], i + (v[2] \div 15)) \div 2^((v[2] % 15)))
                        + (DigitAt(v[1], i + (v[2] \div 15) + 1) % 2^((v[2] % 15)))
                            * 2^(15 - (v[2] % 15))],
                    Len(v[1]))
        [] rule = "DivLimb" ->
            F64("DivTake",
                <<v[1], v[2][1], <<0>> \o v[2][2],
                  Estimate(<<0>> \o v[2][2], v[1])
                  - Cardinality({j \in 0..1 :
                        /\ Estimate(<<0>> \o v[2][2], v[1]) > j
                        /\ F64("BigLess",
                               <<Trimmed(<<0>> \o v[2][2], Len(v[2][2]) + 1),
                                 F64("BigMulSmall",
                                     <<v[1], Estimate(<<0>> \o v[2][2], v[1]) - j>>)>>)})>>)
        [] rule = "DivTake" ->
            <<<<v[4]>> \o v[2],
              F64("BigSub", <<v[3], F64("BigMulSmall", <<v[1], v[4]>>)>>)>>
        [] rule = "Canonical" ->
            <<v[1], F64("BigShiftRight", <<v[2], TrailingZeros(v[2])>>),
              v[3] + TrailingZeros(v[2])>>
        [] rule = "Float" ->
            LET cut == BitLen(v[2]) - 53
                up == /\ Bit(v[2], cut - 1) = 1
                      /\ \/ v[4]
                         \/ Bit(v[2], cut) = 1
                         \/ \E k \in 0..(cut - 2) : Bit(v[2], k) = 1
            IN  IF v[2] = <<>> THEN Zero
                ELSE IF cut <= 0 THEN F64("Canonical", <<v[1], v[2], v[3]>>)
                ELSE F64("Canonical",
                         <<v[1],
                           IF up THEN F64("BigAdd",
                                          <<F64("BigShiftRight", <<v[2], cut>>), <<1>> >>)
                           ELSE F64("BigShiftRight", <<v[2], cut>>),
                           v[3] + cut>>)
        [] rule = "Num" ->
            F64("Float",
                <<IF v[1] < 0 THEN -1 ELSE 1,
                  Trimmed(<<Abs(v[1]) % Limb, (Abs(v[1]) \div Limb) % Limb,
                            Abs(v[1]) \div (Limb * Limb)>>, 3),
                  0, FALSE>>)
        [] rule = "RNeg" -> <<-v[1][1], v[1][2], v[1][3]>>
        [] rule = "RAdd" ->
            IF v[1][1] = 0 THEN v[2]
            ELSE IF v[2][1] = 0 THEN v[1]
            ELSE F64("Aligned",
                     <<v[1][1], v[2][1],
                       F64("BigShiftLeft",
                           <<v[1][2], IF v[1][3] > v[2][3] THEN v[1][3] - v[2][3] ELSE 0>>),
                       F64("BigShiftLeft",
                           <<v[2][2], IF v[2][3] > v[1][3] THEN v[2][3] - v[1][3] ELSE 0>>),
                       IF v[1][3] < v[2][3] THEN v[1][3] ELSE v[2][3]>>)
        [] rule = "Aligned" ->
            IF v[1] = v[2]
            THEN F64("Float", <<v[1], F64("BigAdd", <<v[3], v[4]>>), v[5], FALSE>>)
            ELSE IF F64("BigLess", <<v[3], v[4]>>)
            THEN F64("Float", <<v[2], F64("BigSub", <<v[4], v[3]>>), v[5], FALSE>>)
            ELSE F64("Float", <<v[1], F64("BigSub", <<v[3], v[4]>>), v[5], FALSE>>)
        [] rule = "RMul" ->
            IF v[1][1] = 0 \/ v[2][1] = 0 THEN Zero
            ELSE F64("Float", <<v[1][1] * v[2][1], F64("BigMul", <<v[1][2], v[2][2]>>),
                                v[1][3] + v[2][3], FALSE>>)
        [] rule = "RDiv" ->
            LET width == 15 * ((Max({BitLen(v[2][2]), BitLen(v[1][2]) + 1}) + 14) \div 15)
            IN  IF v[1][1] = 0 THEN Zero
                ELSE F64("Divide",
                         <<v[1][1] * v[2][1],
                           v[1][3] - v[2][3] + BitLen(v[1][2]) + 1 - BitLen(v[2][2]) - 60,
                           F64("BigShiftLeft", <<v[1][2], width - 1 - BitLen(v[1][2])>>),
                           F64("BigShiftLeft", <<v[2][2], width - BitLen(v[2][2])>>)>>)
        [] rule = "Divide" ->
            F64("Divided",
                <<v[1], v[2],
                  F64("DivLimb", <<v[4], F64("DivLimb", <<v[4], F64("DivLimb", <<v[4],
                      F64("DivLimb", <<v[4], <<<<>>, v[3]>> >>)>>)>>)>>)>>)
        [] rule = "Divided" ->
            F64("Float", <<v[1], Trimmed(v[3][1], Len(v[3][1])), v[2], v[3][2] # <<>> >>)
        [] OTHER -> Function(rule, v) :
      v \in {operands}} : TRUE

\* x and y differ by less than 2^-49 (1.8e-15): the same number to the
\* precision of a float64 near 1
Close(x, y) ==
    Only({d[1] = 0 \/ BitLen(d[2]) + d[3] <= -49 : d \in {RSub(x, y)}})

\* numpy's elementwise arithmetic on vectors of equal length
VAdd(u, v) == [i \in DOMAIN u |-> RAdd(u[i], v[i])]
\* A faulty variant of VSub, with the operands exchanged
VSubSwapped(u, v) == [i \in DOMAIN u |-> RSub(v[i], u[i])]

VSub(u, v) == [i \in DOMAIN u |-> RSub(u[i], v[i])]
\* The unary minus left out: the vector is returned as it is.
VNegOmitted(u) == u
VNeg(u) == [i \in DOMAIN u |-> RNeg(u[i])]
VScale(c, u) == [i \in DOMAIN u |-> RMul(c, u[i])]
VDiv(u, c) == [i \in DOMAIN u |-> RDiv(u[i], c)]

\* infix forms: u (+) v, u (-) v, c (.) v, v (/) c
u (+) v == VAdd(u, v)
u (-) v == VSub(u, v)
c (.) v == VScale(c, v)
v (/) c == VDiv(v, c)

\* the first k elements of xs added up from 0., one after the other
RECURSIVE SumTo(_, _)
SumTo(xs, k) == IF k = 0 THEN Zero ELSE RAdd(SumTo(xs, k - 1), xs[k])

RSum(xs) == Only({SumTo(v, Len(v)) : v \in {Strict(xs)}})

\* np.eye(n)[i], with i counted from 1
Eye(n, i) == [j \in 1..n |-> IF j = i THEN One ELSE Zero]

\* np.dot(coefficients, rows): the weighted sum of the rows of a matrix
Dot(coef, rows) ==
    Only({[j \in DOMAIN v[2][1] |->
            RSum([i \in DOMAIN v[2] |-> RMul(v[1][i], v[2][i][j])])] :
            v \in {<<Strict(coef), Strict(rows)>>}})

\* A faulty variant of Linspace, which leaves the end point out
\* (endpoint=False: the step is delta / n and no element is set to b)
LinspaceOpen(a, b, n) ==
    Only({Strict([i \in 1..n |-> RAdd(RMul(Num(i - 1), step), Num(a))]) :
            step \in {RDiv(RSub(Num(b), Num(a)), Num(n))}})

\* np.linspace(a, b, n) for integers a, b and n > 1, as numpy computes it:
\* step = (b - a) / (n - 1), y = arange(n) * step + a (when the step is 0.,
\* arange(n) / (n - 1) * (b - a) + a), and then y[-1] = b
Linspace(a, b, n) ==
    Only({Strict([i \in 1..n |->
                IF i = n THEN Num(b)
                ELSE IF step = Zero
                     THEN RAdd(RMul(RDiv(Num(i - 1), Num(n - 1)),
                                    RSub(Num(b), Num(a))), Num(a))
                     ELSE RAdd(RMul(Num(i - 1), step), Num(a))]) :
            step \in {RDiv(RSub(Num(b), Num(a)), Num(n - 1))}})

\* ---------------------------------------------------------- dictionaries
EmptyDict == <<>>

\* A dict display {k1: v1, k2: v2, ...}: a later entry replaces an earlier
\* one with the same key.
Dict(pairs) ==
    [k \in {pairs[i][1] : i \in DOMAIN pairs} |->
        pairs[Max({i \in DOMAIN pairs : pairs[i][1] = k})][2]]

\* d[k] = v
Put(d, k, v) == [x \in DOMAIN d \cup {k} |-> IF x = k THEN v ELSE d[x]]

\* dict([(name, con[name]) for name in names])
Pick(con, names) == [k \in Range(names) |-> con[k]]

\* A faulty variant of NoneDict, which loses the last declared name
NoneDictShort(contrast_names) ==
    [k \in Range(SubSeq(contrast_names, 1, Len(contrast_names) - 1)) |-> <<>>]

\* dict([(name, []) for name in contrast_names])
NoneDict(contrast_names) == [k \in Range(contrast_names) |-> <<>>]

\* --------------------------------------------------------------- strings
Digit == <<"0", "1", "2", "3", "4", "5", "6", "7", "8", "9">>

RECURSIVE FormatInt(_)
\* '%d' % i for i >= 0
FormatInt(i) ==
    IF i < 10 THEN Digit[i + 1]
    ELSE FormatInt(i \div 10) \o Digit[(i % 10) + 1]

\* s[-k:]
Suffix(s, k) == IF Len(s) <= k THEN s ELSE SubSeq(s, Len(s) - k + 1, Len(s))

\* s[:k]
Prefix(s, k) == IF Len(s) <= k THEN s ELSE SubSeq(s, 1, k)

\* s[k:]
From(s, k) == IF Len(s) <= k THEN "" ELSE SubSeq(s, k + 1, Len(s))

\* s.startswith(p)
StartsWith(s, p) == Len(s) >= Len(p) /\ Prefix(s, Len(p)) = p

\* The characters of a string are those up to U+00FF.  Of these str.lower()
\* changes the capital letters A-Z and À-Þ (× is no letter), each to the
\* character 32 places on; ß, ÿ, µ, ª and º are lower case already.
UpperCase == <<"A", "B", "C", "D", "E", "F", "G", "H", "I", "J", "K", "L",
               "M", "N", "O", "P", "Q", "R", "S", "T", "U", "V", "W", "X",
               "Y", "Z", "À", "Á", "Â", "Ã", "Ä", "Å", "Æ", "Ç", "È", "É",
               "Ê", "Ë", "Ì", "Í", "Î", "Ï", "Ð", "Ñ", "Ò", "Ó", "Ô", "Õ",
               "Ö", "Ø", "Ù", "Ú", "Û", "Ü", "Ý", "Þ">>

LowerCase == <<"a", "b", "c", "d", "e", "f", "g", "h", "i", "j", "k", "l",
               "m", "n", "o", "p", "q", "r", "s", "t", "u", "v", "w", "x",
               "y", "z", "à", "á", "â", "ã", "ä", "å", "æ", "ç", "è", "é",
               "ê", "ë", "ì", "í", "î", "ï", "ð", "ñ", "ò", "ó", "ô", "õ",
               "ö", "ø", "ù", "ú", "û", "ü", "ý", "þ">>

\* c.lower() for one character
LowerChar(c) ==
    IF \E i \in DOMAIN UpperCase : UpperCase[i] = c
    THEN LowerCase[CHOOSE i \in DOMAIN UpperCase : UpperCase[i] = c]
    ELSE c

RECURSIVE Lower(_)
\* s.lower()
Lower(s) ==
    IF Len(s) = 0 THEN ""
    ELSE Lower(SubSeq(s, 1, Len(s) - 1)) \o LowerChar(SubSeq(s, Len(s), Len(s)))

\* ------------------------------------------------------------- arguments
\* design_matrix_columns is either None or a list of column labels.
None == [is_none |-> TRUE, columns |-> <<>>]
Columns(cols) == [is_none |-> FALSE, columns |-> cols]

\* --------------------------------------------------------------- outcome
\* What a call does: it returns a value, or raises an exception (with the
\* message the source gives it; the key of a KeyError is not recorded).
Return(value) == [status |-> "ok", value |-> value, message |-> ""]
Raise(error) == [status |-> error, value |-> EmptyDict, message |-> ""]
RaiseMessage(error, message) ==
    [status |-> error, value |-> EmptyDict, message |-> message]

\* A faulty variant of _elementary_contrasts, whose rows are one column off
_elementary_contrasts_shifted(cols) ==
    LET n_columns == Len(cols)
    IN  [c \in Range(cols) |->
            Eye(n_columns,
                (Max({i \in 1..n_columns : cols[i] = c}) % n_columns) + 1)]

\* ------------------------------------------------ elementary contrasts
\* One basis vector per column, keyed by label (a repeated label keeps the
\* vector of its last position).
_elementary_contrasts(cols) ==
    LET n_columns == Len(cols)
    IN  [c \in Range(cols) |->
            Eye(n_columns, Max({i \in 1..n_columns : cols[i] = c}))]

\* ---------------------------------------------------- derived extensions
nuisance ==
    {"tx", "ty", "tz", "rx", "ry", "rz", "constant"}
        \cup {"drift_" \o FormatInt(i) : i \in 0..19}
        \cup {"conf_" \o FormatInt(i) : i \in 0..19}

\* len(name) > 11 and name[-11:] == '_derivative'
IsDerivativeColumn(name) ==
    Len(name) > 11 /\ Suffix(name, 11) = "_derivative"

\* The rows np.eye(n_columns)[i] of the columns i of `kept`, in that order.
Rows(cols, kept) == [k \in 1..Len(kept) |-> Eye(Len(cols), kept[k])]

\* A faulty variant of _append_effects_interest_contrast, which returns a
\* new mapping holding only the reserved key
_append_effects_interest_contrast_fresh(cols, c) ==
    LET Keep(i) == cols[i] \notin nuisance /\ ~IsDerivativeColumn(cols[i])
        con == Rows(cols, SelectSeq([i \in 1..Len(cols) |-> i], Keep))
    IN  IF con # <<>> THEN Put(EmptyDict, "effects_interest", con) ELSE c

\* A faulty variant of _append_effects_interest_contrast, which leaves out
\* the derivative test of lines 141-143 and so keeps the derivative columns
_append_effects_interest_contrast_with_derivatives(cols, c) ==
    LET Keep(i) == cols[i] \notin nuisance
        con == Rows(cols, SelectSeq([i \in 1..Len(cols) |-> i], Keep))
    IN  IF con # <<>> THEN Put(c, "effects_interest", con) ELSE c

\* Sets contrast['effects_interest'] to the rows of the columns that are
\* neither nuisance nor derivative columns, when there are any.
_append_effects_interest_contrast(cols, c) ==
    LET Keep(i) == cols[i] \notin nuisance /\ ~IsDerivativeColumn(cols[i])
        con == Rows(cols, SelectSeq([i \in 1..Len(cols) |-> i], Keep))
    IN  IF con # <<>> THEN Put(c, "effects_interest", con) ELSE c

\* A faulty variant of _append_derivative_contrast, which adds its rows to
\* those already under the reserved key
_append_derivative_contrast_accumulating(cols, c) ==
    LET Keep(i) == IsDerivativeColumn(cols[i])
        con == Rows(cols, SelectSeq([i \in 1..Len(cols) |-> i], Keep))
        held == IF "derivatives" \in DOMAIN c THEN c["derivatives"] ELSE <<>>
    IN  IF con # <<>> THEN Put(c, "derivatives", held \o con) ELSE c

\* Sets contrast['derivatives'] to the rows of the derivative columns, when
\* there are any.
_append_derivative_contrast(cols, c) ==
    LET Keep(i) == IsDerivativeColumn(cols[i])
        con == Rows(cols, SelectSeq([i \in 1..Len(cols) |-> i], Keep))
    IN  IF con # <<>> THEN Put(c, "derivatives", con) ELSE c

\* ----------------------------------------------- paradigm definitions
\* Each definition follows its function statement by statement.  Where the
\* body assigns to the mapping one key after another, step[k] is the mapping
\* after the k-th assignment and c the mapping before it.

\* assert(sorted(contrasts.keys()) == sorted(contrast_names))
NamesMatch(contrasts, contrast_names) ==
    /\ Len(contrast_names) = Cardinality(DOMAIN contrasts)
    /\ Range(contrast_names) = DOMAIN contrasts

\* The common tail of a definition: the assertion, the two extensions,
\* the return.
Finish(contrast_names, cols, contrasts) ==
    IF ~NamesMatch(contrasts, contrast_names) THEN Raise("AssertionError")
    ELSE Return(_append_effects_interest_contrast(cols,
                    _append_derivative_contrast(cols, contrasts)))

\* con[k] for every k of `labels` succeeds
Has(con, labels) == labels \subseteq DOMAIN con

stop_signal_names == <<"go", "stop", "stop-go">>

\* A faulty variant of stop_signal, which takes a zero vector for a column
\* the design matrix lacks
stop_signal_zero_filled(dmc) ==
    LET cols == dmc.columns
        con == _elementary_contrasts(cols)
        get(k) == IF k \in DOMAIN con THEN con[k]
                  ELSE [j \in 1..Len(cols) |-> Zero]
    IN  IF dmc = None THEN Return(NoneDict(stop_signal_names))
        ELSE Finish(stop_signal_names, cols, Dict(<<
                <<"go", get("go")>>,
                <<"stop", get("stop")>>,
                <<"stop-go", get("stop") (-) get("go")>> >>))

stop_signal(dmc) ==
    LET cols == dmc.columns
        con == _elementary_contrasts(cols)
    IN  IF dmc = None THEN Return(NoneDict(stop_signal_names))
        ELSE IF ~Has(con, {"go", "stop"}) THEN Raise("KeyError")
        ELSE Finish(stop_signal_names, cols, Dict(<<
                <<"go", con["go"]>>,
                <<"stop", con["stop"]>>,
                <<"stop-go", con["stop"] (-) con["go"]>> >>))

math_language_names ==
    <<"colorlessg", "control", "arithfact", "tom", "geomfact", "general",
      "arithprin", "context", "math-others", "geometry-arithmetics",
      "tom_and_context-general", "tom-general">>

math_language(dmc) ==
    LET cols == dmc.columns
        con == _elementary_contrasts(cols)
    IN  IF dmc = None THEN Return(NoneDict(math_language_names))
        ELSE IF ~Has(con, Range(math_language_names)) THEN Raise("KeyError")
        ELSE LET c0 == Pick(con, math_language_names)
                 step[k \in 0..4] ==
                     IF k = 0 THEN c0
                     ELSE LET c == step[k - 1]
                          IN  CASE k = 1 ->
                                  Put(c, "math-others",
                                    c["arithprin"] (+) c["arithfact"] (+) c["geomfact"]
                                    (-) c["tom"] (-) c["general"] (-) c["context"])
                                [] k = 2 ->
                                  Put(c, "geometry-arithmetics",
                                    c["geomfact"]
                                    (-) Half (.) (c["arithprin"] (+) c["arithfact"]))
                                [] k = 3 ->
                                  Put(c, "tom_and_context-general",
                                    c["tom"] (+) c["context"] (-) Num(2) (.) c["general"])
                                [] k = 4 ->
                                  Put(c, "tom-general", c["tom"] (-) c["general"])
                 c4 == step[4]
             IN  Finish(math_language_names, cols, c4)

spatial_navigation_names == <<"experimental", "pointing", "control">>

spatial_navigation(dmc) ==
    LET cols == dmc.columns
        con == _elementary_contrasts(cols)
    IN  IF dmc = None THEN Return(NoneDict(spatial_navigation_names))
        ELSE IF ~Has(con, Range(spatial_navigation_names)) THEN Raise("KeyError")
        ELSE IF ~Has(con, {"experimental", "pointing_phase", "control"})
             THEN Raise("KeyError")
        ELSE Finish(spatial_navigation_names, cols, Dict(<<
                <<"experimental", con["experimental"]>>,
                <<"pointing", con["pointing_phase"]>>,
                <<"control", con["control"]>> >>))

wedge_names ==
    <<"lower_meridian", "lower_right", "right_meridian", "upper_right",
      "upper_meridian", "upper_left", "left_meridian", "lower_left">>

wedge(dmc) ==
    LET cols == dmc.columns
        con == _elementary_contrasts(cols)
    IN  IF dmc = None THEN Return(NoneDict(wedge_names))
        ELSE IF ~Has(con, Range(wedge_names)) THEN Raise("KeyError")
        ELSE Finish(wedge_names, cols, Pick(con, wedge_names))

ring_names == <<"foveal", "middle", "peripheral">>

ring(dmc) ==
    LET cols == dmc.columns
        con == _elementary_contrasts(cols)
    IN  IF dmc = None THEN Return(NoneDict(ring_names))
        ELSE IF ~Has(con, Range(ring_names)) THEN Raise("KeyError")
        ELSE Finish(ring_names, cols, Pick(con, ring_names))

biological_motion1_names ==
    <<"global_upright", "global_inverted", "natural_upright",
      "natural_inverted", "global_upright - natural_upright",
      "global_upright - global_inverted",
      "natural_upright - natural_inverted">>

biological_motion1(dmc) ==
    LET cols == dmc.columns
        con == _elementary_contrasts(cols)
        first4 == SubSeq(biological_motion1_names, 1, 4)
    IN  IF dmc = None THEN Return(NoneDict(biological_motion1_names))
        ELSE IF ~Has(con, Range(first4)) THEN Raise("KeyError")
        ELSE LET c0 == Pick(con, first4)
                 c1 == Put(c0, "global_upright - natural_upright",
                        c0["global_upright"] (-) c0["natural_upright"])
                 c2 == Put(c1, "global_upright - global_inverted",
                        c1["global_upright"] (-) c1["global_inverted"])
                 c3 == Put(c2, "natural_upright - natural_inverted",
                        c2["natural_upright"] (-) c2["natural_inverted"])
             IN  Finish(biological_motion1_names, cols, c3)

biological_motion2_names ==
    <<"modified_upright", "modified_inverted", "natural_upright",
      "natural_inverted", "modified_upright - natural_upright",
      "modified_upright - modified_inverted",
      "natural_upright - natural_inverted">>

biological_motion2(dmc) ==
    LET cols == dmc.columns
        con == _elementary_contrasts(cols)
        first4 == SubSeq(biological_motion2_names, 1, 4)
    IN  IF dmc = None THEN Return(NoneDict(biological_motion2_names))
        ELSE IF ~Has(con, Range(first4)) THEN Raise("KeyError")
        ELSE LET c0 == Pick(con, first4)
                 c1 == Put(c0, "modified_upright - natural_upright",
                        c0["modified_upright"] (-) c0["natural_upright"])
                 c2 == Put(c1, "modified_upright - modified_inverted",
                        c1["modified_upright"] (-) c1["modified_inverted"])
                 c3 == Put(c2, "natural_upright - natural_inverted",
                        c2["natural_upright"] (-) c2["natural_inverted"])
             IN  Finish(biological_motion2_names, cols, c3)

dot_patterns_names ==
    <<"cue", "correct_cue_correct_probe", "correct_cue_incorrect_probe",
      "incorrect_cue_correct_probe", "incorrect_cue_incorrect_probe",
      "correct_cue_incorrect_probe-correct_cue_correct_probe",
      "incorrect_cue_incorrect_probe-incorrect_cue_correct_probe",
      "correct_cue_incorrect_probe-incorrect_cue_correct_probe",
      "incorrect_cue_incorrect_probe-correct_cue_incorrect_probe",
      "correct_cue-incorrect_cue", "incorrect_probe-correct_probe">>

dot_patterns(dmc) ==
    LET cols == dmc.columns
        con == _elementary_contrasts(cols)
    IN  IF dmc = None THEN Return(NoneDict(dot_patterns_names))
        ELSE IF ~Has(con, {"cue", "correct_cue_correct_probe",
                           "correct_cue_incorrect_probe",
                           "incorrect_cue_correct_probe",
                           "incorrect_cue_incorrect_probe"})
             THEN Raise("KeyError")
        ELSE Finish(dot_patterns_names, cols, Dict(<<
            <<"cue", con["cue"]>>,
            <<"correct_cue_correct_probe", con["correct_cue_correct_probe"]>>,
            <<"correct_cue_incorrect_probe", con["correct_cue_incorrect_probe"]>>,
            <<"incorrect_cue_correct_probe", con["incorrect_cue_correct_probe"]>>,
            <<"incorrect_cue_incorrect_probe",
                con["incorrect_cue_incorrect_probe"]>>,
            <<"correct_cue_incorrect_probe-correct_cue_correct_probe",
                con["correct_cue_incorrect_probe"]
                (-) con["correct_cue_correct_probe"]>>,
            <<"incorrect_cue_incorrect_probe-incorrect_cue_correct_probe",
                con["incorrect_cue_incorrect_probe"]
                (-) con["incorrect_cue_correct_probe"]>>,
            <<"correct_cue_incorrect_probe-incorrect_cue_correct_probe",
                con["correct_cue_incorrect_probe"]
                (-) con["incorrect_cue_correct_probe"]>>,
            <<"incorrect_cue_incorrect_probe-correct_cue_incorrect_probe",
                con["incorrect_cue_incorrect_probe"]
                (-) con["correct_cue_incorrect_probe"]>>,
            <<"correct_cue-incorrect_cue",
                con["correct_cue_correct_probe"]
                (+) con["correct_cue_incorrect_probe"]
                (-) con["incorrect_cue_correct_probe"]
                (-) con["incorrect_cue_incorrect_probe"]>>,
            <<"incorrect_probe-correct_probe",
                VNeg(con["correct_cue_correct_probe"])
                (+) con["correct_cue_incorrect_probe"]
                (-) con["incorrect_cue_correct_probe"]
                (+) con["incorrect_cue_incorrect_probe"]>> >>))

columbia_cards_names == <<"num_loss_cards", "loss", "gain">>

columbia_cards(dmc) ==
    LET cols == dmc.columns
        con == _elementary_contrasts(cols)
    IN  IF dmc = None THEN Return(NoneDict(columbia_cards_names))
        ELSE IF ~Has(con, Range(columbia_cards_names)) THEN Raise("KeyError")
        ELSE Finish(columbia_cards_names, cols, Pick(con, columbia_cards_names))

discount_names == <<"delay", "amount">>

discount(dmc) ==
    LET cols == dmc.columns
        con == _elementary_contrasts(cols)
    IN  IF dmc = None THEN Return(NoneDict(discount_names))
        ELSE IF ~Has(con, Range(discount_names)) THEN Raise("KeyError")
        ELSE Finish(discount_names, cols, Pick(con, discount_names))

towertask_names ==
    <<"ambiguous_intermediate", "ambiguous_direct",
      "unambiguous_intermediate", "unambiguous_direct",
      "intermediate-direct", "ambiguous-unambiguous">>

towertask(dmc) ==
    LET cols == dmc.columns
        con == _elementary_contrasts(cols)
    IN  IF dmc = None THEN Return(NoneDict(towertask_names))
        ELSE IF ~Has(con, {"ambiguous_intermediate", "ambiguous_direct",
                           "unambiguous_intermediate", "unambiguous_direct"})
             THEN Raise("KeyError")
        ELSE Finish(towertask_names, cols, Dict(<<
            <<"ambiguous_intermediate", con["ambiguous_intermediate"]>>,
            <<"ambiguous_direct", con["ambiguous_direct"]>>,
            <<"unambiguous_intermediate", con["unambiguous_intermediate"]>>,
            <<"unambiguous_direct", con["unambiguous_direct"]>>,
            <<"intermediate-direct",
                con["ambiguous_intermediate"] (+) con["unambiguous_intermediate"]
                (-) (con["ambiguous_direct"] (+) con["unambiguous_direct"])>>,
            <<"ambiguous-unambiguous",
                con["ambiguous_intermediate"] (-) con["unambiguous_intermediate"]
                (+) con["ambiguous_direct"] (-) con["unambiguous_direct"]>> >>))

two_by_two_names ==
    <<"task_stay_cue_stay", "task_switch_cue_switch", "task_switch_cue_stay",
      "task_stay_cue_switch", "task_switch-stay", "task_repetition">>

two_by_two(dmc) ==
    LET cols == dmc.columns
        con == _elementary_contrasts(cols)
    IN  IF dmc = None THEN Return(NoneDict(two_by_two_names))
        ELSE IF ~Has(con, {"taskstay_cuestay", "taskswitch_cueswitch",
                           "taskswitch_cuestay", "taskstay_cueswitch"})
             THEN Raise("KeyError")
        ELSE Finish(two_by_two_names, cols, Dict(<<
            <<"task_stay_cue_stay", con["taskstay_cuestay"]>>,
            <<"task_switch_cue_switch", con["taskswitch_cueswitch"]>>,
            <<"task_switch_cue_stay", con["taskswitch_cuestay"]>>,
            <<"task_stay_cue_switch", con["taskstay_cueswitch"]>>,
            <<"task_switch-stay",
                con["taskswitch_cueswitch"] (+) con["taskswitch_cuestay"]
                (-) Num(2) (.) con["taskstay_cueswitch"]>>,
            <<"cue_switch",
                con["taskstay_cueswitch"] (-) con["taskstay_cuestay"]>> >>))

attention_names ==
    <<"spatial_cue-double_cue", "spatial_cue", "double_cue",
      "incongruent-congruent", "spatial_incongruent-spatial_congruent",
      "double_incongruent-double_congruent", "spatial_incongruent",
      "double_congruent", "spatial_congruent", "double_incongruent">>

attention(dmc) ==
    LET cols == dmc.columns
        con == _elementary_contrasts(cols)
    IN  IF dmc = None THEN Return(NoneDict(attention_names))
        ELSE IF ~Has(con, {"spatialcue", "doublecue", "spatial_incongruent",
                           "spatial_congruent", "double_incongruent",
                           "double_congruent"})
             THEN Raise("KeyError")
        ELSE Finish(attention_names, cols, Dict(<<
            <<"spatial_cue-double_cue", con["spatialcue"] (-) con["doublecue"]>>,
            <<"spatial_cue", con["spatialcue"]>>,
            <<"double_cue", con["doublecue"]>>,
            <<"incongruent-congruent",
                con["spatial_incongruent"] (-) con["spatial_congruent"]
                (+) con["double_incongruent"] (-) con["double_congruent"]>>,
            <<"spatial_incongruent-spatial_congruent",
                con["spatial_incongruent"] (-) con["spatial_congruent"]>>,
            <<"double_incongruent-double_congruent",
                con["double_incongruent"] (-) con["double_congruent"]>>,
            <<"spatial_incongruent", con["spatial_incongruent"]>>,
            <<"double_congruent", con["double_congruent"]>>,
            <<"spatial_congruent", con["spatial_congruent"]>>,
            <<"double_incongruent", con["double_incongruent"]>> >>))

selective_stop_signal_names ==
    <<"go", "stop", "ignore", "stop-go", "ignore-stop", "stop-ignore",
      "ignore-go">>

selective_stop_signal(dmc) ==
    LET cols == dmc.columns
        con == _elementary_contrasts(cols)
    IN  IF dmc = None THEN Return(NoneDict(selective_stop_signal_names))
        ELSE IF ~Has(con, {"go", "stop", "ignore"}) THEN Raise("KeyError")
        ELSE Finish(selective_stop_signal_names, cols, Dict(<<
            <<"go", con["go"]>>,
            <<"stop", con["stop"]>>,
            <<"ignore", con["ignore"]>>,
            <<"stop-go", con["stop"] (-) con["go"]>>,
            <<"ignore-stop", con["ignore"] (-) con["stop"]>>,
            <<"stop-ignore", con["stop"] (-) con["ignore"]>>,
            <<"ignore-go", con["ignore"] (-) con["go"]>> >>))

stroop_names ==
    <<"congruent", "incongruent", "congruent-incongruent",
      "incongruent-congruent">>

stroop(dmc) ==
    LET cols == dmc.columns
        con == _elementary_contrasts(cols)
    IN  IF dmc = None THEN Return(NoneDict(stroop_names))
        ELSE IF ~Has(con, {"congruent", "incongruent"}) THEN Raise("KeyError")
        ELSE Finish(stroop_names, cols, Dict(<<
            <<"congruent", con["congruent"]>>,
            <<"incongruent", con["incongruent"]>>,
            <<"incongruent-congruent",
                con["incongruent"] (-) con["congruent"]>> >>))

lyon_lec2_names == <<"attend", "unattend", "attend-unattend">>

lyon_lec2(dmc) ==
    LET cols == dmc.columns
        con == _elementary_contrasts(cols)
    IN  IF dmc = None THEN Return(NoneDict(lyon_lec2_names))
        ELSE IF ~Has(con, {"attend", "unattend"}) THEN Raise("KeyError")
        ELSE Finish(lyon_lec2_names, cols, Dict(<<
            <<"attend", con["attend"]>>,
            <<"unattend", con["unattend"]>>,
            <<"attend-unattend", con["attend"] (-) con["unattend"]>> >>))

lyon_audi_names ==
    <<"tear", "suomi", "yawn", "human", "music", "reverse", "speech",
      "alphabet", "cough", "environment", "laugh", "animals", "silence",
      "tear-silence", "suomi-silence", "yawn-silence", "human-silence",
      "music-silence", "reverse-silence", "speech-silence",
      "alphabet-silence", "cough-silence", "environment-silence",
      "laugh-silence", "animals-silence">>

lyon_audi(dmc) ==
    LET cols == dmc.columns
        con == _elementary_contrasts(cols)
        first13 == SubSeq(lyon_audi_names, 1, 13)
        first12 == SubSeq(lyon_audi_names, 1, 12)
    IN  IF dmc = None THEN Return(NoneDict(lyon_audi_names))
        ELSE IF ~Has(con, Range(first13)) THEN Raise("KeyError")
        ELSE Finish(lyon_audi_names, cols,
                [k \in Range(first13) \cup {n \o "-silence" : n \in Range(first12)}
                    |-> IF k \in Range(first13) THEN con[k]
                        ELSE con[CHOOSE n \in Range(first12) :
                                    n \o "-silence" = k] (-) con["silence"]])

lyon_visu_names ==
    <<"scrambled", "scene", "tool", "face", "target_fruit", "house", "animal",
      "characters", "pseudoword", "scene-scrambled", "tool-scrambled",
      "face-scrambled", "house-scrambled", "animal-scrambled",
      "characters-scrambled", "pseudoword-scrambled">>

lyon_visu(dmc) ==
    LET cols == dmc.columns
        con == _elementary_contrasts(cols)
        canonical_contrasts ==
            <<"scrambled", "scene", "tool", "face", "house", "animal",
              "characters", "pseudoword">>
    IN  IF dmc = None THEN Return(NoneDict(lyon_visu_names))
        ELSE IF ~Has(con, Range(canonical_contrasts) \cup {"target_fruit"})
             THEN Raise("KeyError")
        ELSE LET c0 == Pick(con, canonical_contrasts)
                 step[k \in 0..8] ==
                     IF k = 0 THEN c0
                     ELSE LET c == step[k - 1]
                          IN  CASE k = 1 ->
                                  Put(c, "target_fruit", con["target_fruit"])
                                [] k = 2 ->
                                  Put(c, "scene-scrambled", c["scene"] (-) c["scrambled"])
                                [] k = 3 ->
                                  Put(c, "tool-scrambled", c["tool"] (-) c["scrambled"])
                                [] k = 4 ->
                                  Put(c, "face-scrambled", c["face"] (-) c["scrambled"])
                                [] k = 5 ->
                                  Put(c, "house-scrambled", c["house"] (-) c["scrambled"])
                                [] k = 6 ->
                                  Put(c, "animal-scrambled",
                                    c["animal"] (-) c["scrambled"])
                                [] k = 7 ->
                                  Put(c, "characters-scrambled",
                                    c["characters"] (-) c["scrambled"])
                                [] k = 8 ->
                                  Put(c, "pseudoword-scrambled",
                                    c["pseudoword"] (-) c["scrambled"])
                 c8 == step[8]
             IN  Finish(lyon_visu_names, cols, c8)

lyon_lec1_names ==
    <<"pseudoword", "word", "random_string", "word-pseudoword",
      "word-random_string", "pseudoword-random_string">>

lyon_lec1(dmc) ==
    LET cols == dmc.columns
        con == _elementary_contrasts(cols)
    IN  IF dmc = None THEN Return(NoneDict(lyon_lec1_names))
        ELSE IF ~Has(con, {"pseudoword", "word", "random_string"})
             THEN Raise("KeyError")
        ELSE Finish(lyon_lec1_names, cols, Dict(<<
            <<"pseudoword", con["pseudoword"]>>,
            <<"word", con["word"]>>,
            <<"random_string", con["random_string"]>>,
            <<"word-pseudoword", con["word"] (-) con["pseudoword"]>>,
            <<"word-random_string", con["word"] (-) con["random_string"]>>,
            <<"pseudoword-random_string",
                con["pseudoword"] (-) con["random_string"]>> >>))

audio_names ==
    <<"animal", "music", "nature", "speech", "tool", "voice",
      "animal-others", "music-others", "nature-others", "speech-others",
      "tool-others", "voice-others", "mean-silence", "animal-silence",
      "music-silence", "nature-silence", "speech-silence", "tool-silence",
      "voice-silence">>

audio(dmc) ==
    LET cols == dmc.columns
        con == _elementary_contrasts(cols)
    IN  IF dmc = None THEN Return(NoneDict(audio_names))
        ELSE IF ~Has(con, {"animal", "music", "nature", "speech", "tool",
                           "voice", "silence"})
             THEN Raise("KeyError")
        ELSE LET others == (con["animal"] (+) con["music"] (+) con["nature"]
                            (+) con["speech"] (+) con["tool"] (+) con["voice"])
                           (/) Num(5)
             IN  Finish(audio_names, cols, Dict(<<
            <<"animal", con["animal"]>>,
            <<"music", con["music"]>>,
            <<"nature", con["nature"]>>,
            <<"speech", con["speech"]>>,
            <<"tool", con["tool"]>>,
            <<"voice", con["voice"]>>,
            <<"mean-silence", others (-) con["silence"]>>,
            <<"animal-others", con["animal"] (-) others>>,
            <<"music-others", con["music"] (-) others>>,
            <<"nature-others", con["nature"] (-) others>>,
            <<"speech-others", con["speech"] (-) others>>,
            <<"tool-others", con["tool"] (-) others>>,
            <<"voice-others", con["voice"] (-) others>>,
            <<"animal-silence", con["animal"] (-) con["silence"]>>,
            <<"music-silence", con["music"] (-) con["silence"]>>,
            <<"nature-silence", con["nature"] (-) con["silence"]>>,
            <<"speech-silence", con["speech"] (-) con["silence"]>>,
            <<"tool-silence", con["tool"] (-) con["silence"]>>,
            <<"voice-silence", con["voice"] (-) con["silence"]>> >>))

lyon_mveb_names ==
    <<"response", "2_letters_different", "2_letters_same",
      "4_letters_different", "4_letters_same", "6_letters_different",
      "6_letters_same", "2_letters_different-same",
      "4_letters_different-same", "6_letters_different-same",
      "6_letters_different-2_letters_different">>

lyon_mveb(dmc) ==
    LET cols == dmc.columns
        con == _elementary_contrasts(cols)
        first7 == SubSeq(lyon_mveb_names, 1, 7)
    IN  IF dmc = None THEN Return(NoneDict(lyon_mveb_names))
        ELSE IF ~Has(con, Range(first7)) THEN Raise("KeyError")
        ELSE LET c0 == Pick(con, first7)
                 step[k \in 0..4] ==
                     IF k = 0 THEN c0
                     ELSE LET c == step[k - 1]
                          IN  CASE k = 1 ->
                                  Put(c, "2_letters_different-same",
                                    con["2_letters_different"] (-) con["2_letters_same"])
                                [] k = 2 ->
                                  Put(c, "4_letters_different-same",
                                    con["4_letters_different"] (-) con["4_letters_same"])
                                [] k = 3 ->
                                  Put(c, "6_letters_different-same",
                                    con["6_letters_different"] (-) con["6_letters_same"])
                                [] k = 4 ->
                                  Put(c, "6_letters_different-2_letters_different",
                                    con["6_letters_different"] (-) con["2_letters_different"])
                 c4 == step[4]
             IN  Finish(lyon_mveb_names, cols, c4)

lyon_mvis_names ==
    <<"response", "2_dots-2_dots_control", "4_dots-4_dots_control",
      "6_dots-6_dots_control", "6_dots-2_dots", "dots-control">>

lyon_mvis(dmc) ==
    LET cols == dmc.columns
        con == _elementary_contrasts(cols)
    IN  IF dmc = None THEN Return(NoneDict(lyon_mvis_names))
        ELSE IF ~Has(con, {"response", "2_dots", "2_dots_control", "4_dots",
                           "4_dots_control", "6_dots", "6_dots_control"})
             THEN Raise("KeyError")
        ELSE LET c0 == Dict(<< <<"response", con["response"]>> >>)
                 step[k \in 0..5] ==
                     IF k = 0 THEN c0
                     ELSE LET c == step[k - 1]
                          IN  CASE k = 1 ->
                                  Put(c, "2_dots-2_dots_control",
                                    con["2_dots"] (-) con["2_dots_control"])
                                [] k = 2 ->
                                  Put(c, "4_dots-4_dots_control",
                                    con["4_dots"] (-) con["4_dots_control"])
                                [] k = 3 ->
                                  Put(c, "6_dots-6_dots_control",
                                    con["6_dots"] (-) con["6_dots_control"])
                                [] k = 4 ->
                                  Put(c, "6_dots-2_dots", con["6_dots"] (-) con["2_dots"])
                                [] k = 5 ->
                                  Put(c, "dots-control",
                                    con["6_dots"] (+) con["4_dots"] (+) con["2_dots"]
                                    (-) (con["2_dots_control"] (+) con["6_dots_control"]
                                    (+) con["4_dots_control"]))
                 c5 == step[5]
             IN  Finish(lyon_mvis_names, cols, c5)

lyon_moto_names ==
    <<"instructions", "finger_right-fixation", "finger_left-fixation",
      "foot_left-fixation", "foot_right-fixation", "hand_left-fixation",
      "hand_right-fixation", "saccade-fixation", "tongue-fixation">>

lyon_moto(dmc) ==
    LET cols == dmc.columns
        con0 == _elementary_contrasts(cols)
    IN  IF dmc = None THEN Return(NoneDict(lyon_moto_names))
        ELSE IF ~Has(con0, {"instructions", "fixation_left", "fixation_right",
                            "finger_right", "finger_left", "foot_left",
                            "foot_right", "hand_left", "hand_right",
                            "saccade_left", "saccade_right", "tongue_left",
                            "tongue_right"})
             THEN Raise("KeyError")
        ELSE LET c0 == Dict(<< <<"instructions", con0["instructions"]>> >>)
                 con == Put(con0, "fixation",
                        Half (.) (con0["fixation_left"] (+) con0["fixation_right"]))
                 step[k \in 0..8] ==
                     IF k = 0 THEN c0
                     ELSE LET c == step[k - 1]
                          IN  CASE k = 1 ->
                                  Put(c, "finger_right-fixation",
                                    con["finger_right"] (-) con["fixation"])
                                [] k = 2 ->
                                  Put(c, "finger_left-fixation",
                                    con["finger_left"] (-) con["fixation"])
                                [] k = 3 ->
                                  Put(c, "foot_left-fixation",
                                    con["foot_left"] (-) con["fixation"])
                                [] k = 4 ->
                                  Put(c, "foot_right-fixation",
                                    con["foot_right"] (-) con["fixation"])
                                [] k = 5 ->
                                  Put(c, "hand_left-fixation",
                                    con["hand_left"] (-) con["fixation"])
                                [] k = 6 ->
                                  Put(c, "hand_right-fixation",
                                    con["hand_right"] (-) con["fixation"])
                                [] k = 7 ->
                                  Put(c, "saccade-fixation",
                                    con["saccade_left"] (+) con["saccade_right"]
                                    (-) Num(2) (.) con["fixation"])
                                [] k = 8 ->
                                  Put(c, "tongue-fixation",
                                    con["tongue_left"] (+) con["tongue_right"]
                                    (-) Num(2) (.) con["fixation"])
                 c8 == step[8]
             IN  Finish(lyon_moto_names, cols, c8)

lyon_mcse_names ==
    <<"high_salience_left", "high_salience_right", "low_salience_left",
      "low_salience_right", "low-high_salience", "salience_left-right",
      "low+high_salience">>

lyon_mcse(dmc) ==
    LET cols == dmc.columns
        con == _elementary_contrasts(cols)
    IN  IF dmc = None THEN Return(NoneDict(lyon_mcse_names))
        ELSE IF ~Has(con, {"hi_salience_left", "hi_salience_right",
                           "low_salience_left", "low_salience_right"})
             THEN Raise("KeyError")
        ELSE Finish(lyon_mcse_names, cols, Dict(<<
            <<"high_salience_left", con["hi_salience_left"]>>,
            <<"high_salience_right", con["hi_salience_right"]>>,
            <<"low_salience_left", con["low_salience_left"]>>,
            <<"low_salience_right", con["low_salience_right"]>>,
            <<"high-low_salience",
                con["hi_salience_left"] (+) con["hi_salience_right"]
                (-) con["low_salience_left"] (-) con["low_salience_right"]>>,
            <<"low-high_salience",
                VNeg(con["hi_salience_left"]) (-) con["hi_salience_right"]
                (+) con["low_salience_left"] (+) con["low_salience_right"]>>,
            <<"salience_left-right",
                con["hi_salience_left"] (-) con["hi_salience_right"]
                (+) con["low_salience_left"] (-) con["low_salience_right"]>>,
            <<"salience_right-left",
                VNeg(con["hi_salience_left"]) (+) con["hi_salience_right"]
                (-) con["low_salience_left"] (+) con["low_salience_right"]>>,
            <<"low+high_salience",
                con["hi_salience_left"] (+) con["hi_salience_right"]
                (+) con["low_salience_left"] (+) con["low_salience_right"]>> >>))

bang_names == <<"talk", "no_talk", "talk-no_talk">>

bang(dmc) ==
    LET cols == dmc.columns
        con == _elementary_contrasts(cols)
    IN  IF dmc = None THEN Return(NoneDict(bang_names))
        ELSE IF ~Has(con, {"talk", "no_talk"}) THEN Raise("KeyError")
        ELSE Finish(bang_names, cols, Dict(<<
            <<"talk", con["talk"]>>,
            <<"no_talk", con["no_talk"]>>,
            <<"talk-no_talk", con["talk"] (-) con["no_talk"]>> >>))

self_localizer_names ==
    <<"encode_self-other", "encode_other", "encode_self", "instructions",
      "false_alarm", "correct_rejection", "recognition_hit",
      "recognition_hit-correct_rejection", "recognition_self-other",
      "recognition_self_hit", "recognition_other_hit">>

\* A faulty variant of self_localizer_recognition_hit, which turns to
\* 'recognition_other_no_response' before a single hit column
self_localizer_recognition_hit_no_response_first(con) ==
    LET In(k) == k \in DOMAIN con
    IN  IF In("recognition_other_hit") /\ In("recognition_self_hit")
        THEN con["recognition_other_hit"] (+) con["recognition_self_hit"]
        ELSE IF In("recognition_other_no_response")
             THEN con["recognition_other_no_response"]
        ELSE IF In("recognition_self_hit") THEN con["recognition_self_hit"]
        ELSE con["recognition_other_hit"]

\* The value self_localizer binds to recognition_hit when its try/except
\* chain ends without a KeyError
self_localizer_recognition_hit(con) ==
    LET In(k) == k \in DOMAIN con
    IN  IF In("recognition_other_hit") /\ In("recognition_self_hit")
        THEN con["recognition_other_hit"] (+) con["recognition_self_hit"]
        ELSE IF In("recognition_self_hit") THEN con["recognition_self_hit"]
        ELSE IF In("recognition_other_hit") THEN con["recognition_other_hit"]
        ELSE con["recognition_other_no_response"]

\* A faulty variant of self_localizer_correct_rejection, which turns to
\* the fallback column first
self_localizer_correct_rejection_fallback_first(con) ==
    IF "false_alarm" \in DOMAIN con THEN con["false_alarm"]
    ELSE con["correct_rejection"]

\* The value self_localizer binds to correct_rejection when its
\* try/except ends without a KeyError
self_localizer_correct_rejection(con) ==
    IF "correct_rejection" \in DOMAIN con THEN con["correct_rejection"]
    ELSE con["false_alarm"]

self_localizer(dmc) ==
    LET cols == dmc.columns
        con == _elementary_contrasts(cols)
        In(k) == k \in DOMAIN con
        \* each try/except chain: whether it ends without a KeyError, and
        \* the value it then binds
        hit_ok ==
            \/ In("recognition_other_hit") /\ In("recognition_self_hit")
            \/ In("recognition_self_hit")
            \/ In("recognition_other_hit")
            \/ In("recognition_other_no_response")
        recognition_hit == self_localizer_recognition_hit(con)
        rejection_ok == In("correct_rejection") \/ In("false_alarm")
        correct_rejection == self_localizer_correct_rejection(con)
        self_hit_ok == In("recognition_self_hit") \/ In("recognition_self_miss")
        recognition_self_hit ==
            IF In("recognition_self_hit") THEN con["recognition_self_hit"]
            ELSE con["recognition_self_miss"]
        self_ok == In("recognition_self_hit") \/ In("recognition_self_miss")
        recognition_self ==
            IF In("recognition_self_hit") /\ In("recognition_self_miss")
            THEN con["recognition_self_hit"] (+) con["recognition_self_miss"]
            ELSE IF In("recognition_self_miss") THEN con["recognition_self_miss"]
            ELSE con["recognition_self_hit"]
        other_ok == In("recognition_other_hit") \/ In("recognition_other_miss")
        recognition_other ==
            IF In("recognition_other_hit") /\ In("recognition_other_miss")
            THEN con["recognition_other_hit"] (+) con["recognition_other_miss"]
            ELSE IF In("recognition_other_hit") THEN con["recognition_other_hit"]
            ELSE con["recognition_other_miss"]
        other_hit_ok == In("recognition_other_hit") \/ In("recognition_other_miss")
        recognition_other_hit ==
            IF In("recognition_other_hit") THEN con["recognition_other_hit"]
            ELSE con["recognition_other_miss"]
    IN  IF dmc = None THEN Return(NoneDict(self_localizer_names))
        ELSE IF ~(hit_ok /\ rejection_ok /\ self_hit_ok /\ self_ok /\ other_ok
                  /\ other_hit_ok)
             THEN Raise("KeyError")
        ELSE IF ~Has(con, {"encode_self", "encode_other", "instructions",
                           "false_alarm"})
             THEN Raise("KeyError")
        ELSE Finish(self_localizer_names, cols, Dict(<<
            <<"encode_self-other", con["encode_self"] (-) con["encode_other"]>>,
            <<"encode_other", con["encode_other"]>>,
            <<"encode_self", con["encode_self"]>>,
            <<"instructions", con["instructions"]>>,
            <<"false_alarm", con["false_alarm"]>>,
            <<"recognition_hit", recognition_hit>>,
            <<"recognition_self_hit", recognition_self_hit>>,
            <<"recognition_hit-correct_rejection",
                recognition_hit (-) correct_rejection>>,
            <<"correct_rejection", correct_rejection>>,
            <<"recognition_self-other", recognition_self (-) recognition_other>>,
            <<"recognition_other_hit", recognition_other_hit>> >>))

\* colour declares its names only through the mapping it returns for None
colour_names == <<"color", "grey", "color-grey">>

colour(dmc) ==
    LET cols == dmc.columns
        con == _elementary_contrasts(cols)
    IN  IF dmc = None
        THEN Return(Dict(<< <<"color", <<>> >>, <<"grey", <<>> >>,
                            <<"color-grey", <<>> >> >>))
        ELSE IF ~Has(con, {"color", "grey"}) THEN Raise("KeyError")
        ELSE Return(Dict(<<
            <<"color", con["color"]>>,
            <<"grey", con["grey"]>>,
            <<"color-grey", con["color"] (-) con["grey"]>> >>))

\* v ** 2: numpy squares each element
Squares(v) == Only({Strict([i \in DOMAIN u |-> RMul(u[i], u[i])]) : u \in {Strict(v)}})

\* np.add.reduce over a vector of fewer than 129 elements, numpy's pairwise
\* summation: fewer than 8 elements are added up from 0. one after the other;
\* otherwise element i goes to accumulator i mod 8, the accumulators are added
\* as ((r0 + r1) + (r2 + r3)) + ((r4 + r5) + (r6 + r7)), and the elements
\* after the last block of 8 are added to that one after the other.
PairwiseSum(v) ==
    IF Len(v) < 8 THEN RSum(v)
    ELSE LET blocks == Len(v) \div 8
             r == Strict([k \in 1..8 |->
                        RSum([b \in 1..blocks |-> v[8 * (b - 1) + k]])])
             rest == [i \in 1..(Len(v) % 8) |-> v[8 * blocks + i]]
         IN  RSum(<<RAdd(RAdd(RAdd(r[1], r[2]), RAdd(r[3], r[4])),
                         RAdd(RAdd(r[5], r[6]), RAdd(r[7], r[8])))>> \o rest)

\* v.mean(): the sum divided by the number of elements
Mean(v) == Only({RDiv(PairwiseSum(u), Num(Len(u))) : u \in {Strict(v)}})

\* np.ones(n)
Ones(n) == [i \in 1..n |-> One]

\* linear ** 2 - (linear ** 2).mean()
Quadratic(linear) ==
    Only({Strict([i \in DOMAIN v[1] |-> RSub(v[1][i], v[2])]) :
            v \in {<<squares, Mean(squares)>> : squares \in {Squares(linear)}}})

vstm_names == <<"vstm_linear", "vstm_constant", "vstm_quadratic">>

vstm(dmc) ==
    LET cols == dmc.columns
        constant == Ones(6)
        linear == Linspace(-1, 1, 6)
        quadratic == Quadratic(linear)
        con == _elementary_contrasts(cols)
        response == [i \in 1..6 |-> con["response_num_" \o FormatInt(i)]]
    IN  IF dmc = None THEN Return(NoneDict(vstm_names))
        ELSE IF ~Has(con, {"response_num_" \o FormatInt(i) : i \in 1..6})
             THEN Raise("KeyError")
        ELSE Finish(vstm_names, cols, Dict(<<
            <<"vstm_constant", Dot(constant, response)>>,
            <<"vstm_linear", Dot(linear, response)>>,
            <<"vstm_quadratic", Dot(quadratic, response)>> >>))

enumeration_names ==
    <<"enumeration_linear", "enumeration_constant", "enumeration_quadratic">>

enumeration(dmc) ==
    LET cols == dmc.columns
        con == _elementary_contrasts(cols)
        constant == Ones(8)
        linear == Linspace(-1, 1, 8)
        quadratic == Quadratic(linear)
        response == [i \in 1..8 |-> con["response_num_" \o FormatInt(i)]]
    IN  IF dmc = None THEN Return(NoneDict(enumeration_names))
        ELSE IF ~Has(con, {"response_num_" \o FormatInt(i) : i \in 1..8})
             THEN Raise("KeyError")
        ELSE Finish(enumeration_names, cols, Dict(<<
            <<"enumeration_constant", Dot(constant, response)>>,
            <<"enumeration_linear", Dot(linear, response)>>,
            <<"enumeration_quadratic", Dot(quadratic, response)>> >>))

pain_movie_names == <<"movie_pain", "movie_mental", "movie_mental-pain">>

pain_movie(dmc) ==
    LET cols == dmc.columns
        con == _elementary_contrasts(cols)
    IN  IF dmc = None THEN Return(NoneDict(pain_movie_names))
        ELSE IF ~Has(con, {"pain", "mental"}) THEN Raise("KeyError")
        ELSE Finish(pain_movie_names, cols, Dict(<<
            <<"movie_pain", con["pain"]>>,
            <<"movie_mental", con["mental"]>>,
            <<"movie_mental-pain", con["mental"] (-) con["pain"]>> >>))

emotional_pain_names ==
    <<"physical_pain", "emotional_pain", "emotional-physical_pain">>

emotional_pain(dmc) ==
    LET cols == dmc.columns
        con == _elementary_contrasts(cols)
    IN  IF dmc = None THEN Return(NoneDict(emotional_pain_names))
        ELSE IF ~Has(con, {"emotional_pain", "physical_pain"})
             THEN Raise("KeyError")
        ELSE Finish(emotional_pain_names, cols, Dict(<<
            <<"emotional_pain", con["emotional_pain"]>>,
            <<"physical_pain", con["physical_pain"]>>,
            <<"emotional-physical_pain",
                con["emotional_pain"] (-) con["physical_pain"]>> >>))

theory_of_mind_names == <<"belief", "photo", "belief-photo">>

theory_of_mind(dmc) ==
    LET cols == dmc.columns
        con == _elementary_contrasts(cols)
    IN  IF dmc = None THEN Return(NoneDict(theory_of_mind_names))
        ELSE IF ~Has(con, {"photo", "belief"}) THEN Raise("KeyError")
        ELSE Finish(theory_of_mind_names, cols, Dict(<<
            <<"photo", con["photo"]>>,
            <<"belief", con["belief"]>>,
            <<"belief-photo", con["belief"] (-) con["photo"]>> >>))

\* ['%s_linear' % domain, '%s_constant' % domain, '%s_quadratic' % domain]
preferences_names(domain) ==
    <<domain \o "_linear", domain \o "_constant", domain \o "_quadratic">>

\* A faulty variant of preferences, which does not know the domain 'food'
preferences_without_food(dmc, domain) ==
    LET cols == dmc.columns
        con == _elementary_contrasts(cols)
        contrast_names == preferences_names(domain)
    IN  IF domain \notin {"painting", "house", "face"}
        THEN RaiseMessage("ValueError", "Not a correct domain")
        ELSE IF dmc = None THEN Return(NoneDict(contrast_names))
        ELSE IF ~Has(con, Range(contrast_names)) THEN Raise("KeyError")
        ELSE Finish(contrast_names, cols, Pick(con, contrast_names))

preferences(dmc, domain) ==
    LET cols == dmc.columns
        con == _elementary_contrasts(cols)
        contrast_names == preferences_names(domain)
    IN  IF domain \notin {"painting", "house", "face", "food"}
        THEN RaiseMessage("ValueError", "Not a correct domain")
        ELSE IF dmc = None THEN Return(NoneDict(contrast_names))
        ELSE IF ~Has(con, Range(contrast_names)) THEN Raise("KeyError")
        ELSE Finish(contrast_names, cols, Pick(con, contrast_names))

\* The elementary contrasts whose label starts with none of the nuisance
\* names.
_beta_contrasts(cols) ==
    LET con == _elementary_contrasts(cols)
        bad_names ==
            {"constant", "rx", "ry", "rz", "tx", "ty", "tz"}
                \cup {"drift_" \o FormatInt(d) : d \in 0..19}
                \cup {"conf_" \o FormatInt(d) : d \in 0..19}
    IN  [cname \in {c \in DOMAIN con : \A b \in bad_names : ~StartsWith(c, b)}
            |-> con[cname]]

mtt_we_relative_names ==
    <<"we_average_reference", "we_all_space_cue", "we_all_time_cue",
      "we_all_space-time_cue", "we_all_time-space_cue", "we_average_event",
      "we_space_event", "we_time_event", "we_space-time_event",
      "we_time-space_event", "westside-eastside_event",
      "eastside-westside_event", "we_before-after_event",
      "we_after-before_event", "we_all_event_response">>

mtt_we_relative(dmc) ==
    LET cols == dmc.columns
        con == _beta_contrasts(cols)
    IN  IF dmc = None THEN Return(NoneDict(mtt_we_relative_names))
        ELSE IF ~Has(con, {"we_all_reference", "we_all_space_cue",
                           "we_all_time_cue", "we_westside_close_event",
                           "we_westside_far_event", "we_eastside_close_event",
                           "we_eastside_far_event", "we_before_close_event",
                           "we_before_far_event", "we_after_close_event",
                           "we_after_far_event"})
             THEN Raise("KeyError")
        ELSE LET c0 == Dict(<<
                    <<"we_average_reference", con["we_all_reference"]>>,
                    <<"we_all_space_cue", con["we_all_space_cue"]>>,
                    <<"we_all_time_cue", con["we_all_time_cue"]>>,
                    <<"we_westside_event",
                        con["we_westside_close_event"]
                        (+) con["we_westside_far_event"]>>,
                    <<"we_eastside_event",
                        con["we_eastside_close_event"]
                        (+) con["we_eastside_far_event"]>>,
                    <<"we_before_event",
                        con["we_before_close_event"]
                        (+) con["we_before_far_event"]>>,
                    <<"we_after_event",
                        con["we_after_close_event"]
                        (+) con["we_after_far_event"]>>,
                    <<"we_all_event_response", "we_all_event_response">> >>)
                 step[k \in 0..11] ==
                     IF k = 0 THEN c0
                     ELSE LET c == step[k - 1]
                          IN  CASE k = 1 ->
                                  Put(c, "we_all_space-time_cue",
                                    c["we_all_space_cue"] (-) c["we_all_time_cue"])
                                [] k = 2 ->
                                  Put(c, "we_all_time-space_cue",
                                    VNeg(c["we_all_space-time_cue"]))
                                [] k = 3 ->
                                  Put(c, "we_space_event",
                                    c["we_westside_event"] (+) c["we_eastside_event"])
                                [] k = 4 ->
                                  Put(c, "we_time_event",
                                    c["we_before_event"] (+) c["we_after_event"])
                                [] k = 5 ->
                                  Put(c, "we_average_event",
                                    c["we_space_event"] (+) c["we_time_event"])
                                [] k = 6 ->
                                  Put(c, "we_space-time_event",
                                    c["we_space_event"] (-) c["we_time_event"])
                                [] k = 7 ->
                                  Put(c, "we_time-space_event",
                                    VNeg(c["we_space-time_event"]))
                                [] k = 8 ->
                                  Put(c, "westside-eastside_event",
                                    c["we_westside_event"] (-) c["we_eastside_event"])
                                [] k = 9 ->
                                  Put(c, "eastside-westside_event",
                                    VNeg(c["westside-eastside_event"]))
                                [] k = 10 ->
                                  Put(c, "we_before-after_event",
                                    c["we_before_event"] (-) c["we_after_event"])
                                [] k = 11 ->
                                  Put(c, "we_after-before_event",
                                    VNeg(c["we_before-after_event"]))
                 c11 == step[11]
             IN  Return(_append_effects_interest_contrast(cols, c11))

mtt_sn_relative_names ==
    <<"sn_average_reference", "sn_all_space_cue", "sn_all_time_cue",
      "sn_all_space-time_cue", "sn_all_time-space_cue", "sn_average_event",
      "sn_space_event", "sn_time_event", "sn_space-time_event",
      "sn_time-space_event", "northside-southside_event",
      "southside-northside_event", "sn_before-after_event",
      "sn_after-before_event", "sn_all_event_response">>

mtt_sn_relative(dmc) ==
    LET cols == dmc.columns
        con == _beta_contrasts(cols)
    IN  IF dmc = None THEN Return(NoneDict(mtt_sn_relative_names))
        ELSE IF ~Has(con, {"sn_all_reference", "sn_all_space_cue",
                           "sn_all_time_cue", "sn_southside_close_event",
                           "sn_southside_far_event", "sn_northside_close_event",
                           "sn_northside_far_event", "sn_before_close_event",
                           "sn_before_far_event", "sn_after_close_event",
                           "sn_after_far_event"})
             THEN Raise("KeyError")
        ELSE LET c0 == Dict(<<
                    <<"sn_average_reference", con["sn_all_reference"]>>,
                    <<"sn_all_space_cue", con["sn_all_space_cue"]>>,
                    <<"sn_all_time_cue", con["sn_all_time_cue"]>>,
                    <<"sn_southside_event",
                        con["sn_southside_close_event"]
                        (+) con["sn_southside_far_event"]>>,
                    <<"sn_northside_event",
                        con["sn_northside_close_event"]
                        (+) con["sn_northside_far_event"]>>,
                    <<"sn_before_event",
                        con["sn_before_close_event"]
                        (+) con["sn_before_far_event"]>>,
                    <<"sn_after_event",
                        con["sn_after_close_event"]
                        (+) con["sn_after_far_event"]>>,
                    <<"sn_all_event_response", "sn_all_event_response">> >>)
                 step[k \in 0..11] ==
                     IF k = 0 THEN c0
                     ELSE LET c == step[k - 1]
                          IN  CASE k = 1 ->
                                  Put(c, "sn_all_space-time_cue",
                                    c["sn_all_space_cue"] (-) c["sn_all_time_cue"])
                                [] k = 2 ->
                                  Put(c, "sn_all_time-space_cue",
                                    VNeg(c["sn_all_space-time_cue"]))
                                [] k = 3 ->
                                  Put(c, "sn_space_event",
                                    c["sn_southside_event"] (+) c["sn_northside_event"])
                                [] k = 4 ->
                                  Put(c, "sn_time_event",
                                    c["sn_before_event"] (+) c["sn_after_event"])
                                [] k = 5 ->
                                  Put(c, "sn_average_event",
                                    c["sn_space_event"] (+) c["sn_time_event"])
                                [] k = 6 ->
                                  Put(c, "sn_space-time_event",
                                    c["sn_space_event"] (-) c["sn_time_event"])
                                [] k = 7 ->
                                  Put(c, "sn_time-space_event",
                                    VNeg(c["sn_space-time_event"]))
                                [] k = 8 ->
                                  Put(c, "southside-northside_event",
                                    c["sn_southside_event"] (-) c["sn_northside_event"])
                                [] k = 9 ->
                                  Put(c, "northside-southside_event",
                                    VNeg(c["southside-northside_event"]))
                                [] k = 10 ->
                                  Put(c, "sn_before-after_event",
                                    c["sn_before_event"] (-) c["sn_after_event"])
                                [] k = 11 ->
                                  Put(c, "sn_after-before_event",
                                    VNeg(c["sn_before-after_event"]))
                 c11 == step[11]
             IN  Return(_append_effects_interest_contrast(cols, c11))

\* retino declares its names only through the mapping it returns for None
retino_names == <<"cos", "sin", "effects_interest">>

retino(dmc) ==
    LET cols == dmc.columns
        con == _elementary_contrasts(cols)
    IN  IF dmc = None
        THEN Return(Dict(<< <<"cos", <<>> >>, <<"sin", <<>> >>,
                            <<"effects_interest", <<>> >> >>))
        ELSE IF ~Has(con, {"cos", "sin"}) THEN Raise("KeyError")
        ELSE Return(Dict(<<
            <<"cos", con["cos"]>>,
            <<"sin", con["sin"]>>,
            <<"effects_interest", <<con["cos"], con["sin"]>> >> >>))

rsvp_language_names ==
    <<"complex", "simple", "jabberwocky", "word_list", "pseudoword_list",
      "consonant_string", "complex-simple", "sentence-jabberwocky",
      "sentence-word", "word-consonant_string", "jabberwocky-pseudo",
      "word-pseudo", "pseudo-consonant_string", "sentence-consonant_string",
      "simple-consonant_string", "complex-consonant_string",
      "sentence-pseudo", "probe", "jabberwocky-consonant_string">>

rsvp_language(dmc) ==
    LET cols == dmc.columns
        con0 == _elementary_contrasts(cols)
    IN  IF dmc = None THEN Return(NoneDict(rsvp_language_names))
        ELSE IF ~Has(con0, {"complex_sentence", "simple_sentence", "probe",
                            "jabberwocky", "word_list", "pseudoword_list",
                            "consonant_strings"})
             THEN Raise("KeyError")
        ELSE LET con1 == Put(con0, "complex", con0["complex_sentence"])
                 con == Put(con1, "simple", con1["simple_sentence"])
             IN  Finish(rsvp_language_names, cols, Dict(<<
            <<"complex", con["complex"]>>,
            <<"simple", con["simple"]>>,
            <<"probe", con["probe"]>>,
            <<"jabberwocky", con["jabberwocky"]>>,
            <<"word_list", con["word_list"]>>,
            <<"pseudoword_list", con["pseudoword_list"]>>,
            <<"consonant_string", con["consonant_strings"]>>,
            <<"complex-simple", con["complex"] (-) con["simple"]>>,
            <<"sentence-jabberwocky",
                con["complex"] (+) con["simple"]
                (-) Num(2) (.) con["jabberwocky"]>>,
            <<"sentence-word",
                con["complex"] (+) con["simple"]
                (-) Num(2) (.) con["word_list"]>>,
            <<"word-consonant_string",
                con["word_list"] (-) con["consonant_strings"]>>,
            <<"jabberwocky-pseudo",
                con["jabberwocky"] (-) con["pseudoword_list"]>>,
            <<"jabberwocky-consonant_string",
                con["jabberwocky"] (-) con["consonant_strings"]>>,
            <<"word-pseudo", con["word_list"] (-) con["pseudoword_list"]>>,
            <<"pseudo-consonant_string",
                con["pseudoword_list"] (-) con["consonant_strings"]>>,
            <<"sentence-consonant_string",
                con["complex"] (+) con["simple"]
                (-) Num(2) (.) con["consonant_strings"]>>,
            <<"simple-consonant_string",
                con["simple"] (-) con["consonant_strings"]>>,
            <<"complex-consonant_string",
                con["complex"] (-) con["consonant_strings"]>>,
            <<"sentence-pseudo",
                con["complex"] (+) con["simple"]
                (-) Num(2) (.) con["pseudoword_list"]>> >>))

archi_social_names ==
    <<"triangle_mental-random", "false_belief-mechanistic_audio",
      "mechanistic_audio", "false_belief-mechanistic_video",
      "mechanistic_video", "false_belief-mechanistic", "speech-non_speech",
      "triangle_mental", "triangle_random", "false_belief_audio",
      "false_belief_video", "speech_sound", "non_speech_sound">>

archi_social(dmc) ==
    LET cols == dmc.columns
        con == _elementary_contrasts(cols)
    IN  IF dmc = None THEN Return(NoneDict(archi_social_names))
        ELSE IF ~Has(con, {"triangle_intention", "triangle_random",
                           "false_belief_audio", "mechanistic_audio",
                           "false_belief_video", "mechanistic_video",
                           "speech", "non_speech"})
             THEN Raise("KeyError")
        ELSE LET c0 == Dict(<<
                    <<"triangle_mental", con["triangle_intention"]>>,
                    <<"triangle_random", con["triangle_random"]>>,
                    <<"false_belief_audio", con["false_belief_audio"]>>,
                    <<"mechanistic_audio", con["mechanistic_audio"]>>,
                    <<"false_belief_video", con["false_belief_video"]>>,
                    <<"mechanistic_video", con["mechanistic_video"]>>,
                    <<"speech_sound", con["speech"]>>,
                    <<"non_speech_sound", con["non_speech"]>>,
                    <<"triangle_mental-random",
                        con["triangle_intention"] (-) con["triangle_random"]>>,
                    <<"false_belief-mechanistic_audio",
                        con["false_belief_audio"] (-) con["mechanistic_audio"]>>,
                    <<"false_belief-mechanistic_video",
                        con["false_belief_video"] (-) con["mechanistic_video"]>>,
                    <<"speech-non_speech", con["speech"] (-) con["non_speech"]>>,
                    <<"mechanistic_video", con["mechanistic_video"]>>,
                    <<"mechanistic_audio", con["mechanistic_audio"]>> >>)
                 c1 == Put(c0, "false_belief-mechanistic",
                        c0["false_belief-mechanistic_audio"]
                        (+) c0["false_belief-mechanistic_video"])
             IN  Finish(archi_social_names, cols, c1)

archi_spatial_names ==
    <<"saccades", "rotation_hand", "rotation_side", "object_grasp",
      "object_orientation", "hand-side", "grasp-orientation">>

archi_spatial(dmc) ==
    LET cols == dmc.columns
        contrasts == _elementary_contrasts(cols)
    IN  IF dmc = None THEN Return(NoneDict(archi_spatial_names))
        ELSE IF ~Has(contrasts, {"saccade", "rotation_hand", "rotation_side",
                                 "object_grasp", "object_orientation"})
             THEN Raise("KeyError")
        ELSE Finish(archi_spatial_names, cols, Dict(<<
            <<"saccades", contrasts["saccade"]>>,
            <<"rotation_hand", contrasts["rotation_hand"]>>,
            <<"rotation_side", contrasts["rotation_side"]>>,
            <<"object_grasp", contrasts["object_grasp"]>>,
            <<"object_orientation", contrasts["object_orientation"]>>,
            <<"hand-side",
                contrasts["rotation_hand"] (-) contrasts["rotation_side"]>>,
            <<"grasp-orientation",
                contrasts["object_grasp"]
                (-) contrasts["object_orientation"]>> >>))

archi_standard_names ==
    <<"audio_left_button_press", "audio_right_button_press",
      "video_left_button_press", "video_right_button_press",
      "left-right_button_press", "right-left_button_press",
      "listening-reading", "reading-listening", "motor-cognitive",
      "cognitive-motor", "reading-checkerboard", "horizontal-vertical",
      "vertical-horizontal", "horizontal_checkerboard",
      "vertical_checkerboard", "audio_sentence", "video_sentence",
      "audio_computation", "video_computation", "sentences", "computation",
      "computation-sentences", "sentences-computation">>

archi_standard(dmc) ==
    LET cols == dmc.columns
        c0 == _elementary_contrasts(cols)
    IN  IF dmc = None THEN Return(NoneDict(archi_standard_names))
        ELSE IF ~Has(c0, {"audio_left_hand", "audio_right_hand",
                          "video_left_hand", "video_right_hand",
                          "audio_computation", "audio_sentence",
                          "video_sentence", "video_computation",
                          "horizontal_checkerboard", "vertical_checkerboard"})
             THEN Raise("KeyError")
        ELSE LET step[k \in 0..25] ==
                     IF k = 0 THEN c0
                     ELSE LET c == step[k - 1]
                          IN  CASE k = 1 ->
                                  Put(c, "audio_left_button_press", c["audio_left_hand"])
                                [] k = 2 ->
                                  Put(c, "audio_right_button_press", c["audio_right_hand"])
                                [] k = 3 ->
                                  Put(c, "video_left_button_press", c["video_left_hand"])
                                [] k = 4 ->
                                  Put(c, "video_right_button_press", c["video_right_hand"])
                                [] k = 5 ->
                                  Put(c, "audio",
                                    c["audio_left_hand"] (+) c["audio_right_hand"]
                                    (+) c["audio_computation"] (+) c["audio_sentence"])
                                [] k = 6 ->
                                  Put(c, "audio_sentence", c["audio_sentence"])
                                [] k = 7 ->
                                  Put(c, "video_sentence", c["video_sentence"])
                                [] k = 8 ->
                                  Put(c, "audio_computation", c["audio_computation"])
                                [] k = 9 ->
                                  Put(c, "video_computation", c["video_computation"])
                                [] k = 10 ->
                                  Put(c, "video",
                                    c["video_left_hand"] (+) c["video_right_hand"]
                                    (+) c["video_computation"] (+) c["video_sentence"])
                                [] k = 11 ->
                                  Put(c, "left_button_press",
                                    c["audio_left_hand"] (+) c["video_left_hand"])
                                [] k = 12 ->
                                  Put(c, "right_button_press",
                                    c["audio_right_hand"] (+) c["video_right_hand"])
                                [] k = 13 ->
                                  Put(c, "computation",
                                    c["audio_computation"] (+) c["video_computation"])
                                [] k = 14 ->
                                  Put(c, "sentences",
                                    c["audio_sentence"] (+) c["video_sentence"])
                                [] k = 15 ->
                                  Put(c, "horizontal-vertical",
                                    c["horizontal_checkerboard"]
                                    (-) c["vertical_checkerboard"])
                                [] k = 16 ->
                                  Put(c, "vertical-horizontal",
                                    c["vertical_checkerboard"]
                                    (-) c["horizontal_checkerboard"])
                                [] k = 17 ->
                                  Put(c, "left-right_button_press",
                                    c["left_button_press"] (-) c["right_button_press"])
                                [] k = 18 ->
                                  Put(c, "right-left_button_press",
                                    c["right_button_press"] (-) c["left_button_press"])
                                [] k = 19 ->
                                  Put(c, "motor-cognitive",
                                    c["left_button_press"] (+) c["right_button_press"]
                                    (-) c["computation"] (-) c["sentences"])
                                [] k = 20 ->
                                  Put(c, "cognitive-motor",
                                    VNeg(c["left_button_press"] (+) c["right_button_press"]
                                    (-) c["computation"] (-) c["sentences"]))
                                [] k = 21 ->
                                  Put(c, "listening-reading", c["audio"] (-) c["video"])
                                [] k = 22 ->
                                  Put(c, "reading-listening", c["video"] (-) c["audio"])
                                [] k = 23 ->
                                  Put(c, "computation-sentences",
                                    c["computation"] (-) c["sentences"])
                                [] k = 24 ->
                                  Put(c, "sentences-computation",
                                    c["sentences"] (-) c["computation"])
                                [] k = 25 ->
                                  Put(c, "reading-checkerboard",
                                    c["video_sentence"] (-) c["horizontal_checkerboard"])
                 c25 == step[25]
             IN  Finish(archi_standard_names, cols,
                        Pick(c25, archi_standard_names))

archi_emotional_names ==
    <<"face_gender", "face_control", "face_trusty", "expression_intention",
      "expression_gender", "expression_control",
      "trusty_and_intention-control", "trusty_and_intention-gender",
      "expression_gender-control", "expression_intention-control",
      "expression_intention-gender", "face_trusty-control",
      "face_gender-control", "face_trusty-gender">>

archi_emotional(dmc) ==
    LET cols == dmc.columns
        con == _elementary_contrasts(cols)
    IN  IF dmc = None THEN Return(NoneDict(archi_emotional_names))
        ELSE IF ~Has(con, {"face_gender", "face_control", "face_trusty",
                           "expression_intention", "expression_gender",
                           "expression_control"})
             THEN Raise("KeyError")
        ELSE LET c0 == Dict(<<
                    <<"face_gender", con["face_gender"]>>,
                    <<"face_control", con["face_control"]>>,
                    <<"face_trusty", con["face_trusty"]>>,
                    <<"expression_intention", con["expression_intention"]>>,
                    <<"expression_gender", con["expression_gender"]>>,
                    <<"expression_control", con["expression_control"]>>,
                    <<"face_trusty-gender",
                        con["face_trusty"] (-) con["face_gender"]>>,
                    <<"face_gender-control",
                        con["face_gender"] (-) con["face_control"]>>,
                    <<"face_trusty-control",
                        con["face_trusty"] (-) con["face_control"]>>,
                    <<"expression_intention-gender",
                        con["expression_intention"]
                        (-) con["expression_gender"]>>,
                    <<"expression_intention-control",
                        con["expression_intention"]
                        (-) con["expression_control"]>>,
                    <<"expression_gender-control",
                        con["expression_gender"]
                        (-) con["expression_control"]>> >>)
                 c1 == Put(c0, "trusty_and_intention-gender",
                        c0["face_trusty-gender"]
                        (+) c0["expression_intention-gender"])
                 c2 == Put(c1, "trusty_and_intention-control",
                        c1["face_trusty-control"]
                        (+) c1["expression_intention-control"])
             IN  Finish(archi_emotional_names, cols, c2)

\* The loop that opens every hcp_* definition:
\*   contrasts[design_matrix_columns[i].lower()] = np.eye(n_columns)[i]
\* LowerContrasts without the lower-casing of the labels: the elementary
\* contrasts stay keyed by the labels as they are written.
LowerContrasts_as_written(cols) ==
    [c \in {cols[i] : i \in 1..Len(cols)} |->
        Eye(Len(cols), Max({i \in 1..Len(cols) : cols[i] = c}))]

LowerContrasts(cols) ==
    LET n_columns == Len(cols)
    IN  [c \in {Lower(cols[i]) : i \in 1..n_columns} |->
            Eye(n_columns, Max({i \in 1..n_columns : Lower(cols[i]) = c}))]

hcp_emotion_names == <<"face", "shape", "face-shape", "shape-face">>

hcp_emotion(dmc) ==
    LET cols == dmc.columns
        c0 == LowerContrasts(cols)
    IN  IF dmc = None THEN Return(NoneDict(hcp_emotion_names))
        ELSE IF ~Has(c0, {Lower("face"), Lower("shape")}) THEN Raise("KeyError")
        ELSE LET c1 == [key \in {"face", "shape"} |-> c0[Lower(key)]]
             IN  Finish(hcp_emotion_names, cols, Dict(<<
            <<"face-shape", c1["face"] (-) c1["shape"]>>,
            <<"shape-face", c1["shape"] (-) c1["face"]>>,
            <<"face", c1["face"]>>,
            <<"shape", c1["shape"]>> >>))

hcp_gambling_names ==
    <<"punishment-reward", "reward-punishment", "punishment", "reward">>

hcp_gambling(dmc) ==
    LET cols == dmc.columns
        c0 == LowerContrasts(cols)
    IN  IF dmc = None THEN Return(NoneDict(hcp_gambling_names))
        ELSE IF ~Has(c0, {"punishment", "reward"}) THEN Raise("KeyError")
        ELSE LET c1 == Pick(c0, <<"punishment", "reward">>)
             IN  Finish(hcp_gambling_names, cols, Dict(<<
            <<"punishment-reward", c1["punishment"] (-) c1["reward"]>>,
            <<"reward-punishment", c1["reward"] (-) c1["punishment"]>>,
            <<"punishment", c1["punishment"]>>,
            <<"reward", c1["reward"]>> >>))

hcp_language_names == <<"math-story", "story-math", "math", "story">>

hcp_language(dmc) ==
    LET cols == dmc.columns
        c0 == LowerContrasts(cols)
    IN  IF dmc = None THEN Return(NoneDict(hcp_language_names))
        ELSE IF ~Has(c0, {"math", "story"}) THEN Raise("KeyError")
        ELSE LET c1 == Pick(c0, <<"math", "story">>)
             IN  Finish(hcp_language_names, cols, Dict(<<
            <<"math-story", c1["math"] (-) c1["story"]>>,
            <<"story-math", c1["story"] (-) c1["math"]>>,
            <<"math", c1["math"]>>,
            <<"story", c1["story"]>> >>))

hcp_motor_names ==
    <<"left_hand", "right_hand", "left_foot", "right_foot", "tongue",
      "tongue-avg", "left_hand-avg", "right_hand-avg", "left_foot-avg",
      "right_foot-avg", "cue">>

hcp_motor(dmc) ==
    LET cols == dmc.columns
        c0 == LowerContrasts(cols)
    IN  IF dmc = None THEN Return(NoneDict(hcp_motor_names))
        ELSE IF ~Has(c0, {"left_hand", "right_hand", "left_foot", "right_foot",
                          "tongue", "cue"})
             THEN Raise("KeyError")
        ELSE LET c1 == Put(c0, "Average",
                        (c0["left_hand"] (+) c0["right_hand"] (+) c0["left_foot"]
                         (+) c0["right_foot"] (+) c0["tongue"]) (/) Num(5))
             IN  Finish(hcp_motor_names, cols, Dict(<<
            <<"cue", c1["cue"]>>,
            <<"left_hand", c1["left_hand"]>>,
            <<"right_hand", c1["right_hand"]>>,
            <<"left_foot", c1["left_foot"]>>,
            <<"right_foot", c1["right_foot"]>>,
            <<"tongue", c1["tongue"]>>,
            <<"left_hand-avg", c1["left_hand"] (-) c1["Average"]>>,
            <<"right_hand-avg", c1["right_hand"] (-) c1["Average"]>>,
            <<"left_foot-avg", c1["left_foot"] (-) c1["Average"]>>,
            <<"right_foot-avg", c1["right_foot"] (-) c1["Average"]>>,
            <<"tongue-avg", c1["tongue"] (-) c1["Average"]>> >>))

hcp_relational_names == <<"relational", "relational-match", "match">>

hcp_relational(dmc) ==
    LET cols == dmc.columns
        c0 == LowerContrasts(cols)
    IN  IF dmc = None THEN Return(NoneDict(hcp_relational_names))
        ELSE IF ~Has(c0, {"relational", "control"}) THEN Raise("KeyError")
        ELSE LET c1 == Pick(c0, <<"relational", "control">>)
             IN  Finish(hcp_relational_names, cols, Dict(<<
            <<"match", c1["control"]>>,
            <<"relational", c1["relational"]>>,
            <<"relational-match", c1["relational"] (-) c1["control"]>> >>))

hcp_social_names == <<"mental-random", "mental", "random">>

hcp_social(dmc) ==
    LET cols == dmc.columns
        c0 == LowerContrasts(cols)
    IN  IF dmc = None THEN Return(NoneDict(hcp_social_names))
        ELSE IF ~Has(c0, {"mental", "random"}) THEN Raise("KeyError")
        ELSE LET c1 == Pick(c0, <<"mental", "random">>)
             IN  Finish(hcp_social_names, cols, Dict(<<
            <<"mental-random", c1["mental"] (-) c1["random"]>>,
            <<"random", c1["random"]>>,
            <<"mental", c1["mental"]>> >>))

hcp_wm_names ==
    <<"2back-0back", "0back-2back", "body-avg", "face-avg", "place-avg",
      "tools-avg", "0back_body", "2back_body", "0back_face", "2back_face",
      "0back_tools", "2back_tools", "0back_place", "2back_place">>

hcp_wm(dmc) ==
    LET cols == dmc.columns
        c0 == LowerContrasts(cols)
        keys == <<"2back_body", "0back_body", "2back_face", "0back_face",
                  "2back_tools", "0back_tools", "0back_place", "2back_place">>
    IN  IF dmc = None THEN Return(NoneDict(hcp_wm_names))
        ELSE IF ~Has(c0, Range(keys)) THEN Raise("KeyError")
        ELSE LET c1 == Pick(c0, keys)
                 step[k \in 1..8] ==
                     IF k = 1 THEN c1
                     ELSE LET c == step[k - 1]
                          IN  CASE k = 2 ->
                                  Put(c, "2back",
                                    c["2back_body"] (+) c["2back_face"]
                                    (+) c["2back_tools"] (+) c["2back_place"])
                                [] k = 3 ->
                                  Put(c, "0back",
                                    c["0back_body"] (+) c["0back_face"]
                                    (+) c["0back_tools"] (+) c["0back_place"])
                                [] k = 4 ->
                                  Put(c, "body",
                                    (c["2back_body"] (+) c["0back_body"]) (/) Num(2))
                                [] k = 5 ->
                                  Put(c, "face",
                                    (c["2back_face"] (+) c["0back_face"]) (/) Num(2))
                                [] k = 6 ->
                                  Put(c, "place",
                                    (c["2back_place"] (+) c["0back_place"]) (/) Num(2))
                                [] k = 7 ->
                                  Put(c, "tools",
                                    (c["2back_tools"] (+) c["0back_tools"]) (/) Num(2))
                                [] k = 8 ->
                                  Put(c, "average",
                                    (c["2back"] (+) c["0back"]) (/) Num(8))
                 c8 == step[8]
             IN  Finish(hcp_wm_names, cols, Dict(<<
            <<"0back_body", c8["0back_body"]>>,
            <<"2back_body", c8["2back_body"]>>,
            <<"0back_face", c8["0back_face"]>>,
            <<"2back_face", c8["2back_face"]>>,
            <<"0back_tools", c8["0back_tools"]>>,
            <<"2back_tools", c8["2back_tools"]>>,
            <<"0back_place", c8["0back_place"]>>,
            <<"2back_place", c8["2back_place"]>>,
            <<"2back-0back", c8["2back"] (-) c8["0back"]>>,
            <<"0back-2back", c8["0back"] (-) c8["2back"]>>,
            <<"body-avg", c8["body"] (-) c8["average"]>>,
            <<"face-avg", c8["face"] (-) c8["average"]>>,
            <<"place-avg", c8["place"] (-) c8["average"]>>,
            <<"tools-avg", c8["tools"] (-) c8["average"]>> >>))

\* A faulty variant of make_contrasts, which knows one identifier of each
\* retinotopy family only
make_contrasts_exact(id, dmc) ==
    IF id = "wedge" THEN wedge(dmc)
    ELSE IF id = "ring" THEN ring(dmc)
    ELSE RaiseMessage("ValueError", id \o " Unknown paradigm")

\* ------------------------------------------------------------ dispatcher
make_contrasts(id, dmc) ==
    CASE id = "archi_standard" -> archi_standard(dmc)
      [] id = "archi_social" -> archi_social(dmc)
      [] id = "archi_spatial" -> archi_spatial(dmc)
      [] id = "archi_emotional" -> archi_emotional(dmc)
      [] id = "hcp_emotion" -> hcp_emotion(dmc)
      [] id = "hcp_gambling" -> hcp_gambling(dmc)
      [] id = "hcp_language" -> hcp_language(dmc)
      [] id = "hcp_motor" -> hcp_motor(dmc)
      [] id = "hcp_wm" -> hcp_wm(dmc)
      [] id = "hcp_relational" -> hcp_relational(dmc)
      [] id = "hcp_social" -> hcp_social(dmc)
      [] id = "language" -> rsvp_language(dmc)
      [] id = "colour" -> colour(dmc)
      [] id \in {"wedge", "wedge_anti", "wedge_clock"} -> wedge(dmc)
      [] id \in {"ring", "cont_ring", "exp_ring"} -> ring(dmc)
      [] Prefix(id, 10) = "preference" ->
         LET domain == From(id, 11)
              IN  IF domain = "" THEN Raise("IndexError")
                  ELSE IF Suffix(domain, 1) = "s"
                       THEN preferences(dmc, Prefix(domain, Len(domain) - 1))
                       ELSE preferences(dmc, domain)
      [] id = "MTTWE" -> mtt_we_relative(dmc)
      [] id = "MTTNS" -> mtt_sn_relative(dmc)
      [] id = "emotional_pain" -> emotional_pain(dmc)
      [] id = "pain_movie" -> pain_movie(dmc)
      [] id = "theory_of_mind" -> theory_of_mind(dmc)
      [] id = "VSTM" -> vstm(dmc)
      [] id = "enumeration" -> enumeration(dmc)
      [] id = "clips_trn" -> Return(EmptyDict)
      [] id = "self" -> self_localizer(dmc)
      [] id = "lyon_moto" -> lyon_moto(dmc)
      [] id = "lyon_mcse" -> lyon_mcse(dmc)
      [] id = "lyon_mveb" -> lyon_mveb(dmc)
      [] id = "lyon_mvis" -> lyon_mvis(dmc)
      [] id = "lyon_lec1" -> lyon_lec1(dmc)
      [] id = "lyon_lec2" -> lyon_lec2(dmc)
      [] id = "lyon_audi" -> lyon_audi(dmc)
      [] id = "lyon_visu" -> lyon_visu(dmc)
      [] id = "audio" -> audio(dmc)
      [] id = "bang" -> bang(dmc)
      [] id = "selective_stop_signal" -> selective_stop_signal(dmc)
      [] id = "stop_signal" -> stop_signal(dmc)
      [] id = "stroop" -> stroop(dmc)
      [] id = "discount" -> discount(dmc)
      [] id = "attention" -> attention(dmc)
      [] id = "ward_and_aliport" -> towertask(dmc)
      [] id = "two_by_two" -> two_by_two(dmc)
      [] id = "columbia_cards" -> columbia_cards(dmc)
      [] id = "dot_patterns" -> dot_patterns(dmc)
      [] id = "biological_motion1" -> biological_motion1(dmc)
      [] id = "biological_motion2" -> biological_motion2(dmc)
      [] id = "math_language" -> math_language(dmc)
      [] id = "spatial_navigation" -> spatial_navigation(dmc)
      [] OTHER -> RaiseMessage("ValueError", id \o " Unknown paradigm")


\* ------------------------------------------------------------- registry
\* One row per identifier make_contrasts recognises: the identifier, the
\* contrast names its definition declares, and a design matrix holding the
\* columns the definition reads.
Registry == <<
    <<"archi_standard", archi_standard_names,
        <<"audio_left_hand", "audio_right_hand", "video_left_hand",
          "video_right_hand", "audio_computation", "audio_sentence",
          "video_sentence", "video_computation",
          "horizontal_checkerboard", "vertical_checkerboard">>>>,
    <<"archi_social", archi_social_names,
        <<"triangle_intention", "triangle_random",
          "false_belief_audio", "mechanistic_audio",
          "false_belief_video", "mechanistic_video", "speech",
          "non_speech">>>>,
    <<"archi_spatial", archi_spatial_names,
        <<"saccade", "rotation_hand", "rotation_side", "object_grasp",
          "object_orientation">>>>,
    <<"archi_emotional", archi_emotional_names,
        <<"face_gender", "face_control", "face_trusty",
          "expression_intention", "expression_gender",
          "expression_control">>>>,
    <<"hcp_emotion", hcp_emotion_names,
        <<"face", "shape">>>>,
    <<"hcp_gambling", hcp_gambling_names,
        <<"punishment", "reward">>>>,
    <<"hcp_language", hcp_language_names,
        <<"math", "story">>>>,
    <<"hcp_motor", hcp_motor_names,
        <<"left_hand", "right_hand", "left_foot", "right_foot",
          "tongue", "cue">>>>,
    <<"hcp_wm", hcp_wm_names,
        <<"2back_body", "0back_body", "2back_face", "0back_face",
          "2back_tools", "0back_tools", "0back_place", "2back_place">>>>,
    <<"hcp_relational", hcp_relational_names,
        <<"relational", "control">>>>,
    <<"hcp_social", hcp_social_names,
        <<"mental", "random">>>>,
    <<"language", rsvp_language_names,
        <<"complex_sentence", "simple_sentence", "probe",
          "jabberwocky", "word_list", "pseudoword_list",
          "consonant_strings">>>>,
    <<"colour", colour_names,
        <<"color", "grey">>>>,
    <<"MTTWE", mtt_we_relative_names,
        <<"we_all_reference", "we_all_space_cue", "we_all_time_cue",
          "we_westside_close_event", "we_westside_far_event",
          "we_eastside_close_event", "we_eastside_far_event",
          "we_before_close_event", "we_before_far_event",
          "we_after_close_event", "we_after_far_event">>>>,
    <<"MTTNS", mtt_sn_relative_names,
        <<"sn_all_reference", "sn_all_space_cue", "sn_all_time_cue",
          "sn_southside_close_event", "sn_southside_far_event",
          "sn_northside_close_event", "sn_northside_far_event",
          "sn_before_close_event", "sn_before_far_event",
          "sn_after_close_event", "sn_after_far_event">>>>,
    <<"emotional_pain", emotional_pain_names,
        <<"emotional_pain", "physical_pain">>>>,
    <<"pain_movie", pain_movie_names,
        <<"pain", "mental">>>>,
    <<"theory_of_mind", theory_of_mind_names,
        <<"photo", "belief">>>>,
    <<"VSTM", vstm_names,
        <<"response_num_1", "response_num_2", "response_num_3",
          "response_num_4", "response_num_5", "response_num_6">>>>,
    <<"enumeration", enumeration_names,
        <<"response_num_1", "response_num_2", "response_num_3",
          "response_num_4", "response_num_5", "response_num_6",
          "response_num_7", "response_num_8">>>>,
    <<"clips_trn", <<>>,
        <<>>>>,
    <<"self", self_localizer_names,
        <<"encode_self", "encode_other", "instructions",
          "false_alarm", "correct_rejection", "recognition_self_hit",
          "recognition_self_miss", "recognition_other_hit",
          "recognition_other_miss", "recognition_other_no_response">>>>,
    <<"lyon_moto", lyon_moto_names,
        <<"instructions", "fixation_left", "fixation_right",
          "finger_right", "finger_left", "foot_left", "foot_right",
          "hand_left", "hand_right", "saccade_left", "saccade_right",
          "tongue_left", "tongue_right">>>>,
    <<"lyon_mcse", lyon_mcse_names,
        <<"hi_salience_left", "hi_salience_right",
          "low_salience_left", "low_salience_right">>>>,
    <<"lyon_mveb", lyon_mveb_names,
        <<"response", "2_letters_different", "2_letters_same",
          "4_letters_different", "4_letters_same",
          "6_letters_different", "6_letters_same">>>>,
    <<"lyon_mvis", lyon_mvis_names,
        <<"response", "2_dots", "2_dots_control", "4_dots",
          "4_dots_control", "6_dots", "6_dots_control">>>>,
    <<"lyon_lec1", lyon_lec1_names,
        <<"pseudoword", "word", "random_string">>>>,
    <<"lyon_lec2", lyon_lec2_names,
        <<"attend", "unattend">>>>,
    <<"lyon_audi", lyon_audi_names,
        <<"tear", "suomi", "yawn", "human", "music", "reverse",
          "speech", "alphabet", "cough", "environment", "laugh",
          "animals", "silence">>>>,
    <<"lyon_visu", lyon_visu_names,
        <<"scrambled", "scene", "tool", "face", "house", "animal",
          "characters", "pseudoword", "target_fruit">>>>,
    <<"audio", audio_names,
        <<"animal", "music", "nature", "speech", "tool", "voice",
          "silence">>>>,
    <<"bang", bang_names,
        <<"talk", "no_talk">>>>,
    <<"selective_stop_signal", selective_stop_signal_names,
        <<"go", "stop", "ignore">>>>,
    <<"stop_signal", stop_signal_names,
        <<"go", "stop">>>>,
    <<"stroop", stroop_names,
        <<"congruent", "incongruent">>>>,
    <<"discount", discount_names,
        <<"delay", "amount">>>>,
    <<"attention", attention_names,
        <<"spatialcue", "doublecue", "spatial_incongruent",
          "spatial_congruent", "double_incongruent",
          "double_congruent">>>>,
    <<"ward_and_aliport", towertask_names,
        <<"ambiguous_intermediate", "ambiguous_direct",
          "unambiguous_intermediate", "unambiguous_direct">>>>,
    <<"two_by_two", two_by_two_names,
        <<"taskstay_cuestay", "taskswitch_cueswitch",
          "taskswitch_cuestay", "taskstay_cueswitch">>>>,
    <<"columbia_cards", columbia_cards_names,
        <<"num_loss_cards", "loss", "gain">>>>,
    <<"dot_patterns", dot_patterns_names,
        <<"cue", "correct_cue_correct_probe",
          "correct_cue_incorrect_probe",
          "incorrect_cue_correct_probe",
          "incorrect_cue_incorrect_probe">>>>,
    <<"biological_motion1", biological_motion1_names,
        <<"global_upright", "global_inverted", "natural_upright",
          "natural_inverted">>>>,
    <<"biological_motion2", biological_motion2_names,
        <<"modified_upright", "modified_inverted", "natural_upright",
          "natural_inverted">>>>,
    <<"math_language", math_language_names,
        <<"colorlessg", "control", "arithfact", "tom", "geomfact",
          "general", "arithprin", "context", "math-others",
          "geometry-arithmetics", "tom_and_context-general",
          "tom-general">>>>,
    <<"spatial_navigation", spatial_navigation_names,
        <<"experimental", "pointing", "control", "pointing_phase">>>>,
    <<"wedge", wedge_names,
        <<"lower_meridian", "lower_right", "right_meridian",
          "upper_right", "upper_meridian", "upper_left",
          "left_meridian", "lower_left">>>>,
    <<"wedge_anti", wedge_names,
        <<"lower_meridian", "lower_right", "right_meridian",
          "upper_right", "upper_meridian", "upper_left",
          "left_meridian", "lower_left">>>>,
    <<"wedge_clock", wedge_names,
        <<"lower_meridian", "lower_right", "right_meridian",
          "upper_right", "upper_meridian", "upper_left",
          "left_meridian", "lower_left">>>>,
    <<"ring", ring_names,
        <<"foveal", "middle", "peripheral">>>>,
    <<"cont_ring", ring_names,
        <<"foveal", "middle", "peripheral">>>>,
    <<"exp_ring", ring_names,
        <<"foveal", "middle", "peripheral">>>>,
    <<"preference_painting", preferences_names("painting"),
        <<"painting_linear", "painting_constant",
          "painting_quadratic">>>>,
    <<"preference_paintings", preferences_names("painting"),
        <<"painting_linear", "painting_constant",
          "painting_quadratic">>>>,
    <<"preference_house", preferences_names("house"),
        <<"house_linear", "house_constant", "house_quadratic">>>>,
    <<"preference_houses", preferences_names("house"),
        <<"house_linear", "house_constant", "house_quadratic">>>>,
    <<"preference_face", preferences_names("face"),
        <<"face_linear", "face_constant", "face_quadratic">>>>,
    <<"preference_faces", preferences_names("face"),
        <<"face_linear", "face_constant", "face_quadratic">>>>,
    <<"preference_food", preferences_names("food"),
        <<"food_linear", "food_constant", "food_quadratic">>>>,
    <<"preference_foods", preferences_names("food"),
        <<"food_linear", "food_constant", "food_quadratic">>>>
>>

\* The identifiers the dispatcher resolves to a definition: those it
\* compares whole, and every string whose first ten characters are
\* 'preference' and whose text from the twelfth character on, one final 's'
\* removed, is a domain of preferences (the eleventh character is not
\* looked at).
Recognised ==
    {id \in STRING :
        \/ \E i \in DOMAIN Registry : Registry[i][1] = id
        \/ /\ Prefix(id, 10) = "preference"
           /\ From(id, 11) # ""
           /\ (IF Suffix(From(id, 11), 1) = "s"
               THEN Prefix(From(id, 11), Len(From(id, 11)) - 1)
               ELSE From(id, 11)) \in {"painting", "house", "face", "food"}}

\* The row of an identifier; an identifier of the preference family has the
\* row of 'preference_<domain>'.
Row(id) ==
    LET domain == IF Suffix(From(id, 11), 1) = "s"
                  THEN Prefix(From(id, 11), Len(From(id, 11)) - 1)
                  ELSE From(id, 11)
        key == IF Prefix(id, 10) = "preference"
               THEN "preference_" \o domain ELSE id
    IN  Registry[CHOOSE i \in DOMAIN Registry : Registry[i][1] = key]

DeclaredNames(id) == Row(id)[2]

Design(id) == Row(id)[3]

\* ---------------------------------------------------------------- inputs
\* Identifiers handed to make_contrasts: those of the registry, others the
\* preference branch resolves, and some that no branch of the dispatcher
\* resolves.
ParadigmIds ==
    {Registry[i][1] : i \in DOMAIN Registry}
        \cup {"preferenceXface", "preferenceXfaces", "preference face"}
        \cup {"", "retino", "stop", "preference", "preference_",
              "preference_s", "preference_xyz", "preferences_face",
              "preference_xyzs", "preference_facess"}

\* Columns a design matrix may hold beside those a paradigm reads.
ExtraLabels == {"constant", "conf_19", "x_derivative", "_derivative", "extra"}

\* Labels of the design matrices handed to the elementary builder and to
\* the extension functions.
FreeLabels ==
    {"a", "b", "constant", "drift_0", "drift_20", "a_derivative",
     "_derivative"}

\* The lists of at most n distinct labels of S
UniqueLists(S, n) ==
    UNION {{s \in [1..k -> S] : \A i, j \in 1..k : i # j => s[i] # s[j]}
            : k \in 0..n}

Reverse(s) == [i \in 1..Len(s) |-> s[Len(s) + 1 - i]]

\* s without its d-th element (s itself when d = 0)
Drop(s, d) == [i \in 1..(Len(s) - (IF d = 0 THEN 0 ELSE 1)) |->
                    IF d = 0 \/ i < d THEN s[i] ELSE s[i + 1]]

\* Design matrices around the columns `design`: in source order with at
\* most one column missing, or reversed, with extra columns before or after.
DesignMatrices(design) ==
    {IF front THEN e \o x ELSE x \o e :
        front \in BOOLEAN,
        e \in UniqueLists(ExtraLabels \ Range(design), MaxExtra),
        x \in {Drop(design, d) : d \in 0..Len(design)}
                \cup {Reverse(design)}}

\* The arguments make_contrasts and retino are called with
Arguments(design) == {None} \cup {Columns(c) : c \in DesignMatrices(design)}

\* Contrast mappings a caller may hand to an extension function with the
\* columns `cols`: empty, the elementary contrasts, and those with both
\* reserved keys already present.
Stale(cols) == <<[j \in 1..Len(cols) |-> Zero]>>

CallerContrasts(cols) ==
    {EmptyDict,
     _elementary_contrasts(cols),
     Put(Put(_elementary_contrasts(cols), "effects_interest", Stale(cols)),
         "derivatives", Stale(cols))}

\* ------------------------------------------- group analysis (global_stat)
\* ord(c) up to an increasing map, for the characters of the labels of a
\* catalog
Ord(c) ==
    LET Alphabet == <<"-">> \o Digit \o <<"_">> \o LowerCase
    IN  CHOOSE i \in DOMAIN Alphabet : Alphabet[i] = c

RECURSIVE StrLess(_, _)
\* a < b for two Python strings
StrLess(a, b) ==
    IF Len(b) = 0 THEN FALSE
    ELSE IF Len(a) = 0 THEN TRUE
    ELSE LET x == SubSeq(a, 1, 1)
             y == SubSeq(b, 1, 1)
         IN  IF x # y THEN Ord(x) < Ord(y)
             ELSE StrLess(SubSeq(a, 2, Len(a)), SubSeq(b, 2, Len(b)))

\* A faulty variant of Unique, which keeps the labels in the order of
\* their first appearance
UniqueUnsorted(feature) ==
    LET First(i) == \A j \in 1..(i - 1) : feature[j] # feature[i]
        kept == SelectSeq([i \in 1..Len(feature) |-> i], First)
    IN  [k \in 1..Len(kept) |-> feature[kept[k]]]

\* np.unique(feature), the classes_ of a fitted LabelEncoder: the distinct
\* labels in increasing order
Unique(feature) ==
    LET labels == Range(feature)
        rank == [l \in labels |->
                    Cardinality({m \in labels : StrLess(m, l)}) + 1]
    IN  [k \in 1..Cardinality(labels) |->
            CHOOSE l \in labels : rank[l] = k]

\* A faulty variant of PySlice, which counts a negative index from one
\* past the end
PySlice_past_end(s, a, b) ==
    LET n == Len(s)
        norm(i) == IF i < 0 THEN (IF n + i + 1 < 0 THEN 0 ELSE n + i + 1)
                   ELSE (IF i > n THEN n ELSE i)
    IN  SubSeq(s, norm(a) + 1, norm(b))

\* s[a:b] of a Python sequence, either index possibly negative
PySlice(s, a, b) ==
    LET n == Len(s)
        norm(i) == IF i < 0 THEN (IF n + i < 0 THEN 0 ELSE n + i)
                   ELSE (IF i > n THEN n ELSE i)
    IN  SubSeq(s, norm(a) + 1, norm(b))

\* design(feature): the one-hot matrix of the encoded labels, a column per
\* class, and the classes
design(feature) ==
    LET feature_ == Unique(feature)
        dmtx == [r \in 1..Len(feature) |->
                    [k \in 1..Len(feature_) |->
                        IF feature[r] = feature_[k] THEN One ELSE Zero]]
    IN  <<dmtx, feature_>>

\* math_img('img * (img > -8.2095)', img=img): every voxel times the truth
\* value (1 or 0) of its comparison with the threshold
math_img(img) ==
    LET threshold == Rat(-82095, 10000)
        Greater(x, y) == RSub(x, y)[1] > 0
    IN  [i \in 1..Len(img) |->
            RMul(img[i], IF Greater(img[i], threshold) THEN One ELSE Zero)]

\* anova(db, masker): the design matrix with its labels, the degrees of
\* freedom, the three contrast matrices handed to compute_contrast, the
\* z-score maps compute_contrast gives back (z_score, the work of the
\* second-level model, taken as given) and the three maps returned.  The
\* call prints nothing.  A catalog without 'ap' or 'pa' row makes
\* OneHotEncoder.fit_transform raise ValueError (no sample).
anova(catalog, z_score) ==
    LET Kept(row) == row.acquisition = "ap" \/ row.acquisition = "pa"
        df == SelectSeq(catalog, Kept)
        n == Len(df)
        sub == design([r \in 1..n |-> df[r].subject])
        con == design([r \in 1..n |-> df[r].contrast])
        acq == design([r \in 1..n |-> df[r].acquisition])
        subject_ == sub[2]
        contrast_ == con[2]
        acq_ == acq[2]
        dmtx == [r \in 1..n |->
                    PySlice(sub[1][r], 0, -1) \o PySlice(con[1][r], 0, -1)
                        \o PySlice(acq[1][r], 0, -1) \o <<One>>]
        labels == PySlice(subject_, 0, -1) \o PySlice(contrast_, 0, -1)
                    \o PySlice(acq_, 0, -1) \o <<"intercept">>
        dof_subject == Len(subject_) - 1
        dof_contrast == Len(contrast_) - 1
        dof_acq == Len(acq_) - 1
        eye == [i \in 1..Len(labels) |-> Eye(Len(labels), i)]
    IN  IF n = 0 THEN Raise("ValueError")
        ELSE Return([design_matrix |-> dmtx,
                     labels |-> labels,
                     dof_subject |-> dof_subject,
                     dof_contrast |-> dof_contrast,
                     dof_acq |-> dof_acq,
                     subject_contrast |-> PySlice(eye, 0, dof_subject),
                     contrast_contrast |->
                        PySlice(eye, dof_subject, dof_subject + dof_contrast),
                     acq_contrast |-> PySlice(eye, -1 - dof_acq, -1),
                     z_score |-> z_score,
                     subject_map |-> math_img(z_score.subject),
                     contrast_map |-> math_img(z_score.contrast),
                     acq_map |-> math_img(z_score.acq),
                     printed |-> <<>>])

\* The catalogs of at most MaxRows images: first-level maps of either
\* phase encoding direction, and a fixed-effects map, which anova leaves
\* out
Catalogs ==
    LET CatalogRows ==
            [subject : {"sub-01", "sub-02", "sub-11"},
             contrast : {"stop", "go"},
             acquisition : {"ap", "pa"}]
                \cup {[subject |-> "sub-01", contrast |-> "go",
                        acquisition |-> "ffx"]}
    IN  UNION {[1..n -> CatalogRows] : n \in 0..MaxRows}

\* No call of make_contrasts was made yet.
NoCall == [calls |-> 0, paradigm_id |-> "", design_matrix_columns |-> None,
           result |-> Return(EmptyDict)]

\* ------------------------------------------------------------ entry points
\* The z-score maps of a fit, from their voxel values in ten-thousandths
Image(z_score) ==
    [subject |-> Strict([i \in DOMAIN z_score.subject |->
                            Rat(z_score.subject[i], 10000)]),
     contrast |-> Strict([i \in DOMAIN z_score.contrast |->
                            Rat(z_score.contrast[i], 10000)]),
     acq |-> Strict([i \in DOMAIN z_score.acq |->
                            Rat(z_score.acq[i], 10000)])]

\* The functions a caller runs, as rules of F64: the arithmetic of a call is
\* then the arithmetic of one evaluation of F64.
Function(name, arguments) ==
    CASE name = "make_contrasts" -> make_contrasts(arguments[1], arguments[2])
      [] name = "self_localizer" -> self_localizer(arguments[1])
      [] name = "anova" -> anova(arguments[1], arguments[2])
      [] name = "Image" -> Image(arguments[1])

\* A call of a function of the program, with its arithmetic
Run(name, arguments) == F64(name, arguments)

\* ---------------------------------------------------------- state machine
\* The functions of the module keep no state between calls, so a behaviour
\* is one call: of make_contrasts, of retino, of _elementary_contrasts, or a
\* caller's mapping handed to the extension functions any number of times.
Init ==
    /\ op = "start"
    /\ paradigm_id = ""
    /\ design_matrix_columns = None
    /\ contrast = EmptyDict
    /\ result = Return(EmptyDict)
    /\ first = NoCall
    /\ db = <<>>

\* make_contrasts(paradigm_id, design_matrix_columns)
MakeContrasts ==
    /\ op = "start"
    /\ \E id \in ParadigmIds :
        \E dmc \in Arguments(IF id \in Recognised THEN Design(id) ELSE <<>>) :
            /\ op' = "make_contrasts"
            /\ paradigm_id' = id
            /\ design_matrix_columns' = dmc
            /\ contrast' = EmptyDict
            /\ result' = Run("make_contrasts", <<id, dmc>>)
            /\ UNCHANGED <<first, db>>

\* retino(design_matrix_columns), which no identifier dispatches to
Retino ==
    /\ op = "start"
    /\ \E dmc \in Arguments(<<"cos", "sin">>) :
        /\ op' = "retino"
        /\ paradigm_id' = ""
        /\ design_matrix_columns' = dmc
        /\ contrast' = EmptyDict
        /\ result' = retino(dmc)
        /\ UNCHANGED <<first, db>>

\* _elementary_contrasts(design_matrix_columns)
ElementaryContrasts ==
    /\ op = "start"
    /\ \E cols \in UniqueLists(FreeLabels, MaxCols) :
        /\ op' = "_elementary_contrasts"
        /\ paradigm_id' = ""
        /\ design_matrix_columns' = Columns(cols)
        /\ contrast' = EmptyDict
        /\ result' = Return(_elementary_contrasts(cols))
        /\ UNCHANGED <<first, db>>

\* The caller holds a design matrix and a contrast mapping.
Prepare ==
    /\ op = "start"
    /\ \E cols \in UniqueLists(FreeLabels, MaxCols) :
        \E c \in CallerContrasts(cols) :
            /\ op' = "prepare"
            /\ paradigm_id' = ""
            /\ design_matrix_columns' = Columns(cols)
            /\ contrast' = c
            /\ result' = Return(EmptyDict)
            /\ UNCHANGED <<first, db>>

Prepared ==
    op \in {"prepare", "_append_effects_interest_contrast",
            "_append_derivative_contrast"}

\* _append_effects_interest_contrast(design_matrix_columns, contrast):
\* the mapping is updated in place and returned.
AppendEffectsInterest ==
    /\ Prepared
    /\ op' = "_append_effects_interest_contrast"
    /\ contrast' = _append_effects_interest_contrast(
                        design_matrix_columns.columns, contrast)
    /\ result' = Return(contrast')
    /\ UNCHANGED <<paradigm_id, design_matrix_columns, first, db>>

\* _append_derivative_contrast(design_matrix_columns, contrast)
AppendDerivative ==
    /\ Prepared
    /\ op' = "_append_derivative_contrast"
    /\ contrast' = _append_derivative_contrast(
                        design_matrix_columns.columns, contrast)
    /\ result' = Return(contrast')
    /\ UNCHANGED <<paradigm_id, design_matrix_columns, first, db>>

\* Design matrices of the self localizer: the columns it reads outside its
\* fallback chains, and any of the columns its chains look for, in source
\* order or reversed.
SelfDesignMatrices ==
    LET base == <<"encode_self", "encode_other", "instructions",
                  "false_alarm">>
        optional == <<"correct_rejection", "recognition_self_hit",
                      "recognition_self_miss", "recognition_other_hit",
                      "recognition_other_miss",
                      "recognition_other_no_response">>
    IN  UNION {LET Kept(label) == label \in present
                   x == base \o SelectSeq(optional, Kept)
               IN  {x, Reverse(x)} : present \in SUBSET Range(optional)}

\* self_localizer(design_matrix_columns)
SelfLocalizer ==
    /\ op = "start"
    /\ \E cols \in SelfDesignMatrices :
        /\ op' = "self_localizer"
        /\ paradigm_id' = ""
        /\ design_matrix_columns' = Columns(cols)
        /\ contrast' = EmptyDict
        /\ result' = Run("self_localizer", <<Columns(cols)>>)
        /\ UNCHANGED <<first, db>>

\* The column labels `labels` with some of them written in another letter
\* case: one label in capitals, every label in capitals, every label with
\* a capital initial, or every label with every second letter a capital.
CaseVariants(labels) ==
    LET UpperChar(c) ==
            IF \E k \in 1..Len(LowerCase) : LowerCase[k] = c
            THEN UpperCase[CHOOSE k \in 1..Len(LowerCase) : LowerCase[k] = c]
            ELSE c
        Upper(s) ==
            LET up[k \in 0..Len(s)] ==
                    IF k = 0 THEN ""
                    ELSE up[k - 1] \o UpperChar(SubSeq(s, k, k))
            IN  up[Len(s)]
        Capitalize(s) ==
            IF Len(s) = 0 THEN s
            ELSE UpperChar(SubSeq(s, 1, 1)) \o SubSeq(s, 2, Len(s))
        Alternate(s) ==
            LET alt[k \in 0..Len(s)] ==
                    IF k = 0 THEN ""
                    ELSE alt[k - 1] \o (IF k % 2 = 0
                                         THEN UpperChar(SubSeq(s, k, k))
                                         ELSE SubSeq(s, k, k))
            IN  alt[Len(s)]
    IN  {[i \in 1..Len(labels) |->
            IF i = k THEN Upper(labels[i]) ELSE labels[i]] :
                k \in 1..Len(labels)}
        \cup {[i \in 1..Len(labels) |-> Upper(labels[i])],
              [i \in 1..Len(labels) |-> Capitalize(labels[i])],
              [i \in 1..Len(labels) |-> Alternate(labels[i])]}

\* make_contrasts called for an hcp_* paradigm on column labels written in
\* another letter case: the labels its definition reads, alone, behind a
\* nuisance column, in front of a column it does not read whose label has
\* letters beyond A-Z, or with the first label a second time (in another
\* letter case the two are equal after lower-casing).
MakeContrastsCase ==
    /\ op = "start"
    /\ \E id \in {"hcp_emotion", "hcp_gambling", "hcp_language", "hcp_motor",
                   "hcp_wm", "hcp_relational", "hcp_social"} :
        \E labels \in {Design(id), <<"conf_19">> \o Design(id),
                        Design(id) \o <<"réponse_été">>,
                        Design(id) \o <<Design(id)[1]>>} :
            \E cols \in CaseVariants(labels) :
                /\ op' = "make_contrasts"
                /\ paradigm_id' = id
                /\ design_matrix_columns' = Columns(cols)
                /\ contrast' = EmptyDict
                /\ result' = Run("make_contrasts", <<id, Columns(cols)>>)
                /\ UNCHANGED <<first, db>>

\* make_contrasts called on the design of a paradigm with one column the
\* definition does not read inserted at any position.
MakeContrastsInserted ==
    /\ op = "start"
    /\ \E id \in {x \in ParadigmIds : x \in Recognised} :
        \E e \in ExtraLabels \ Range(Design(id)) :
            \E at \in 0..Len(Design(id)) :
                LET cols == SubSeq(Design(id), 1, at) \o <<e>>
                                \o SubSeq(Design(id), at + 1, Len(Design(id)))
                IN  /\ op' = "make_contrasts"
                    /\ paradigm_id' = id
                    /\ design_matrix_columns' = Columns(cols)
                    /\ contrast' = EmptyDict
                    /\ result' = Run("make_contrasts", <<id, Columns(cols)>>)
                    /\ UNCHANGED <<first, db>>

Next ==
    \/ MakeContrasts
    \/ MakeContrastsInserted
    \/ MakeContrastsCase
    \/ SelfLocalizer
    \/ Retino
    \/ ElementaryContrasts
    \/ Prepare
    \/ AppendEffectsInterest
    \/ AppendDerivative

Spec == Init /\ [][Next]_vars

\* -------------------------------------------------- group analysis
\* anova(db, masker), the one call of the group analysis
Anova ==
    /\ op = "start"
    /\ \E catalog \in Catalogs :
        /\ op' = "anova"
        /\ db' = catalog
        /\ result' = Run("anova",
                <<catalog, Run("Image", <<[subject |-> <<30000, -90000>>,
                                           contrast |-> <<-80000>>,
                                           acq |-> <<0>>]>>)>>)
        /\ paradigm_id' = ""
        /\ design_matrix_columns' = None
        /\ contrast' = EmptyDict
        /\ first' = first

\* anova(db, masker) on one catalog, for every z-score map the second-level
\* model may give back: two voxels for the subject effect, one for the
\* others, with values on either side of the threshold and on it
AnovaFit ==
    /\ op = "start"
    /\ \E z_score \in
            LET Voxels == {-90000, -82095, -80000, 0, 30000}
            IN  [subject : [1..2 -> Voxels], contrast : [1..1 -> Voxels],
                 acq : [1..1 -> Voxels]] :
        /\ op' = "anova"
        /\ db' = <<[subject |-> "sub-01", contrast |-> "go",
                    acquisition |-> "ap"],
                   [subject |-> "sub-02", contrast |-> "stop",
                    acquisition |-> "pa"]>>
        /\ result' = Run("anova", <<db', Run("Image", <<z_score>>)>>)
        /\ paradigm_id' = ""
        /\ design_matrix_columns' = None
        /\ contrast' = EmptyDict
        /\ first' = first

NextAnova ==
    \/ Anova
    \/ AnovaFit

SpecAnova == Init /\ [][NextAnova]_vars

\* ------------------------------------------------- sequences of calls
\* A program calls make_contrasts any number of times, with the same or
\* other arguments; `first` keeps the first call, its outcome, and the
\* number of calls made so far.
CallIds ==
    {"stop_signal", "colour", "self", "exp_ring", "language", "MTTNS",
     "preference_foods", "preference", "stop"}

CallArguments(id) ==
    LET read == IF id \in Recognised THEN Design(id) ELSE <<>>
    IN  {None, Columns(read),
         Columns(<<"x_derivative">> \o Reverse(read)),
         Columns(Drop(read \o <<"constant">>, 1))}

Call(id, dmc) ==
    /\ op' = "make_contrasts"
    /\ paradigm_id' = id
    /\ design_matrix_columns' = dmc
    /\ contrast' = EmptyDict
    /\ result' = Run("make_contrasts", <<id, dmc>>)
    /\ db' = db

FirstCall ==
    /\ op = "start"
    /\ \E id \in CallIds :
        \E dmc \in CallArguments(id) :
            /\ Call(id, dmc)
            /\ first' = [calls |-> 1, paradigm_id |-> id,
                         design_matrix_columns |-> dmc, result |-> result']

CallAgain ==
    /\ op = "make_contrasts"
    /\ first.calls \in 1..(MaxCalls - 1)
    /\ \E id \in CallIds :
        \E dmc \in CallArguments(id) :
            /\ Call(id, dmc)
            /\ first' = [first EXCEPT !.calls = @ + 1]

NextCalls ==
    \/ FirstCall
    \/ CallAgain

SpecCalls == Init /\ [][NextCalls]_vars


\* ------------------------------------------------------------- properties
\* The two reserved keys the extension functions write
Bookkeeping == {"effects_interest", "derivatives"}

\* C1: every make_contrasts call for a recognised identifier, on a list of
\* unique column labels containing all the labels its definition reads,
\* returns normally, and the returned names other than the two bookkeeping
\* keys are exactly the names the definition declares.
C1_ReturnsDeclaredNames ==
    (/\ op = "make_contrasts"
     /\ paradigm_id \in Recognised
     /\ ~design_matrix_columns.is_none
     /\ Range(Design(paradigm_id)) \subseteq
            Range(design_matrix_columns.columns))
    => (/\ result.status = "ok"
        /\ DOMAIN result.value \ Bookkeeping =
                Range(DeclaredNames(paradigm_id)))

\* C2 as stated: a call with None (of a definition through make_contrasts,
\* or of retino) returns a mapping from exactly the declared names to the
\* empty list, with neither bookkeeping key in it.
C2_NoneWithoutBookkeeping ==
    (/\ \/ op = "make_contrasts" /\ paradigm_id \in Recognised
        \/ op = "retino"
     /\ design_matrix_columns.is_none)
    => (/\ result.status = "ok"
        /\ DOMAIN result.value =
                IF op = "retino" THEN Range(retino_names)
                ELSE Range(DeclaredNames(paradigm_id))
        /\ \A k \in DOMAIN result.value : result.value[k] = <<>>
        /\ DOMAIN result.value \cap Bookkeeping = {})

\* C2, amended: a call with None returns a mapping from exactly the declared
\* names to the empty list; no bookkeeping key is in it for the definitions
\* make_contrasts dispatches to, while retino declares 'effects_interest'
\* beside 'cos' and 'sin'.
C2_NoneDeclaresNames ==
    /\ (/\ op = "make_contrasts"
        /\ paradigm_id \in Recognised
        /\ design_matrix_columns.is_none)
       => (/\ result.status = "ok"
           /\ DOMAIN result.value = Range(DeclaredNames(paradigm_id))
           /\ \A k \in DOMAIN result.value : result.value[k] = <<>>
           /\ DOMAIN result.value \cap Bookkeeping = {})
    /\ (op = "retino" /\ design_matrix_columns.is_none)
       => (/\ result.status = "ok"
           /\ DOMAIN result.value = {"cos", "sin", "effects_interest"}
           /\ \A k \in DOMAIN result.value : result.value[k] = <<>>)

\* A definition with several declared names was called with None, and so
\* was retino.
C2_Witness ==
    /\ design_matrix_columns.is_none
    /\ result.status = "ok"
    /\ \/ op = "make_contrasts" /\ Cardinality(DOMAIN result.value) >= 3
       \/ op = "retino" /\ "effects_interest" \in DOMAIN result.value

\* C3: no definition returns a concrete contrast set whose names, the
\* bookkeeping keys aside, differ from its declared list: each definition
\* checks the names and a mismatch aborts the call.
C3_MismatchAborts ==
    (/\ op = "make_contrasts"
     /\ paradigm_id \in Recognised
     /\ ~design_matrix_columns.is_none
     /\ result.status = "ok")
    => DOMAIN result.value \ Bookkeeping = Range(DeclaredNames(paradigm_id))

\* C4: for stop_signal on columns containing 'go' and 'stop', 'go' and
\* 'stop' are the basis vectors of their columns and 'stop-go' is the basis
\* vector of 'stop' minus that of 'go': [-1, 1] on the columns [go, stop].
C4_StopMinusGo ==
    LET cols == design_matrix_columns.columns
        n == Len(cols)
        go == [j \in 1..n |-> IF cols[j] = "go" THEN One ELSE Zero]
        stop == [j \in 1..n |-> IF cols[j] = "stop" THEN One ELSE Zero]
    IN  (/\ op = "make_contrasts"
         /\ paradigm_id = "stop_signal"
         /\ ~design_matrix_columns.is_none
         /\ {"go", "stop"} \subseteq Range(cols))
        => (/\ result.status = "ok"
            /\ result.value["go"] = go
            /\ result.value["stop"] = stop
            /\ result.value["stop-go"] =
                    [j \in 1..n |-> IF cols[j] = "stop" THEN One
                                    ELSE IF cols[j] = "go" THEN RNeg(One)
                                    ELSE Zero]
            /\ cols = <<"go", "stop">>
                    => result.value["stop-go"] = <<RNeg(One), One>>)

\* stop_signal was called on a design matrix holding 'go', 'stop' and a
\* further column, with 'go' not first.
C4_Witness ==
    /\ op = "make_contrasts"
    /\ paradigm_id = "stop_signal"
    /\ ~design_matrix_columns.is_none
    /\ Len(design_matrix_columns.columns) = 3
    /\ design_matrix_columns.columns[1] # "go"
    /\ result.status = "ok"
    /\ "stop-go" \in DOMAIN result.value


\* C5: the effects-of-interest extension sets 'effects_interest' to the
\* rows, in column order, of the basis vectors of the columns that are
\* neither nuisance columns nor named with the ending '_derivative', and
\* adds no key when there is no such column.
C5_EffectsInterestRows ==
    [][op' = "_append_effects_interest_contrast" =>
        LET cols == design_matrix_columns.columns
            n == Len(cols)
            EndsInDerivative(name) ==
                Len(name) >= 11 /\ SubSeq(name, Len(name) - 10, Len(name))
                                        = "_derivative"
            Interest(i) == cols[i] \notin nuisance
                           /\ ~EndsInDerivative(cols[i])
            kept == SelectSeq([i \in 1..n |-> i], Interest)
            rows == [k \in 1..Len(kept) |->
                        [j \in 1..n |-> IF j = kept[k] THEN One
                                        ELSE Zero]]
        IN  IF kept # <<>>
            THEN /\ "effects_interest" \in DOMAIN contrast'
                 /\ contrast'["effects_interest"] = rows
            ELSE ("effects_interest" \in DOMAIN contrast')
                    = ("effects_interest" \in DOMAIN contrast)]_vars

\* C6: the derivative extension sets 'derivatives' to the rows, in column
\* order, of the basis vectors of the columns whose name ends in
\* '_derivative', the column named just '_derivative' among them, and adds
\* no key when there is no such column.
C6_DerivativeRows ==
    [][op' = "_append_derivative_contrast" =>
        LET cols == design_matrix_columns.columns
            n == Len(cols)
            EndsInDerivative(name) ==
                Len(name) >= 11 /\ SubSeq(name, Len(name) - 10, Len(name))
                                        = "_derivative"
            Derivative(i) == EndsInDerivative(cols[i])
            kept == SelectSeq([i \in 1..n |-> i], Derivative)
            rows == [k \in 1..Len(kept) |->
                        [j \in 1..n |-> IF j = kept[k] THEN One
                                        ELSE Zero]]
        IN  IF kept # <<>>
            THEN /\ "derivatives" \in DOMAIN contrast'
                 /\ contrast'["derivatives"] = rows
            ELSE ("derivatives" \in DOMAIN contrast')
                    = ("derivatives" \in DOMAIN contrast)]_vars

\* C7: once the two extensions have been applied to a contrast set,
\* applying either or both again with the same columns leaves the set as
\* it is: same keys, same rows under both reserved keys.
C7_Idempotent ==
    Prepared =>
        LET cols == design_matrix_columns.columns
            once == _append_effects_interest_contrast(cols,
                        _append_derivative_contrast(cols, contrast))
        IN  /\ _append_derivative_contrast(cols, once) = once
            /\ _append_effects_interest_contrast(cols, once) = once
            /\ _append_effects_interest_contrast(cols,
                    _append_derivative_contrast(cols, once)) = once
            /\ op = "_append_derivative_contrast"
                    => _append_derivative_contrast(cols, contrast) = contrast
            /\ op = "_append_effects_interest_contrast"
                    => _append_effects_interest_contrast(cols, contrast)
                            = contrast

\* Both extensions have been applied to a caller's contrast set whose
\* columns hold a derivative column and two columns of interest.
C7_Witness ==
    /\ op = "_append_effects_interest_contrast"
    /\ Bookkeeping \subseteq DOMAIN contrast
    /\ Len(contrast["effects_interest"]) = 2
    /\ contrast["derivatives"] # Stale(design_matrix_columns.columns)
    /\ contrast = _append_derivative_contrast(
                        design_matrix_columns.columns, contrast)

\* C8: an extension returns the mapping it was given, updated in place: at
\* most its own reserved key changes, every other entry and the column
\* labels stay as they were.
C8_ExtensionFrame ==
    [][\A f \in {"_append_effects_interest_contrast",
                 "_append_derivative_contrast"} :
        op' = f =>
            LET key == IF f = "_append_derivative_contrast"
                       THEN "derivatives" ELSE "effects_interest"
            IN  /\ result'.status = "ok"
                /\ result'.value = contrast'
                /\ DOMAIN contrast' \ {key} = DOMAIN contrast \ {key}
                /\ \A k \in DOMAIN contrast \ {key} :
                        contrast'[k] = contrast[k]
                /\ design_matrix_columns' = design_matrix_columns]_vars

\* An extension has replaced a stale entry under its key in a mapping that
\* holds other entries.
C8_Witness ==
    /\ op \in {"_append_effects_interest_contrast",
               "_append_derivative_contrast"}
    /\ DOMAIN contrast \ Bookkeeping # {}
    /\ Bookkeeping \subseteq DOMAIN contrast
    /\ LET key == IF op = "_append_derivative_contrast"
                   THEN "derivatives" ELSE "effects_interest"
           other == CHOOSE k \in Bookkeeping : k # key
       IN  /\ contrast[key] # Stale(design_matrix_columns.columns)
           /\ contrast[other] = Stale(design_matrix_columns.columns)


\* C9: for N unique column labels _elementary_contrasts returns exactly N
\* entries, one per label, the entry of the label at index i being the
\* vector of length N with 1 at index i and 0 elsewhere.
C9_ElementaryBasis ==
    op = "_elementary_contrasts" =>
        LET cols == design_matrix_columns.columns
            n == Len(cols)
        IN  /\ result.status = "ok"
            /\ DOMAIN result.value = Range(cols)
            /\ Cardinality(DOMAIN result.value) = n
            /\ \A i \in 1..n :
                    /\ Len(result.value[cols[i]]) = n
                    /\ \A j \in 1..n :
                            result.value[cols[i]][j] =
                                IF j = i THEN One ELSE Zero

\* _elementary_contrasts was called on as many labels as the bound allows.
C9_Witness ==
    /\ op = "_elementary_contrasts"
    /\ Len(design_matrix_columns.columns) = MaxCols
    /\ Cardinality(DOMAIN result.value) = MaxCols

\* C10: for vstm on columns holding response_num_1..6, 'vstm_constant'
\* weighs each of the six by 1; 'vstm_linear' weighs them by -1, -0.6, -0.2,
\* 0.2, 0.6, 1 in level order, to the precision of a float64 (within 2^-49
\* of the decimal, the ends -1 and 1 exactly); 'vstm_quadratic' weighs
\* level k by the square of its linear weight minus the mean of the six
\* squares, which is 8/15, -8/75, -32/75, -32/75, -8/75, 8/15 to the same
\* precision; every other column weighs 0, wherever the response columns sit.
C10_VstmWeights ==
    LET cols == design_matrix_columns.columns
        level == [k \in 1..6 |-> "response_num_" \o Digit[k + 1]]
        At(name, k) ==
            result.value[name][CHOOSE j \in 1..Len(cols) : cols[j] = level[k]]
        linear == Strict([k \in 1..6 |-> At("vstm_linear", k)])
        squared == Strict([k \in 1..6 |-> RMul(linear[k], linear[k])])
        decimal == <<RNeg(One), Rat(-6, 10), Rat(-2, 10),
                     Rat(2, 10), Rat(6, 10), One>>
        fraction == <<Rat(8, 15), Rat(-8, 75), Rat(-32, 75),
                      Rat(-32, 75), Rat(-8, 75), Rat(8, 15)>>
        Weights(w) ==
            [j \in 1..Len(cols) |->
                IF \E k \in 1..6 : cols[j] = level[k]
                THEN w[CHOOSE k \in 1..6 : cols[j] = level[k]]
                ELSE Zero]
    IN  (/\ op = "make_contrasts"
         /\ paradigm_id = "VSTM"
         /\ ~design_matrix_columns.is_none
         /\ Range(level) \subseteq Range(cols))
        => (/\ result.status = "ok"
            /\ result.value["vstm_constant"] = Weights([k \in 1..6 |-> One])
            /\ result.value["vstm_linear"] = Weights(linear)
            /\ linear[1] = RNeg(One)
            /\ linear[6] = One
            /\ \A k \in 1..6 : Close(linear[k], decimal[k])
            /\ result.value["vstm_quadratic"]
                    = Weights([k \in 1..6 |-> RSub(squared[k], Mean(squared))])
            /\ \A k \in 1..6 :
                    Close(At("vstm_quadratic", k), fraction[k]))

\* vstm was called on the response columns in reverse order behind an
\* extra first column.
C10_Witness ==
    /\ op = "make_contrasts"
    /\ paradigm_id = "VSTM"
    /\ ~design_matrix_columns.is_none
    /\ result.status = "ok"
    /\ Len(design_matrix_columns.columns) = 7
    /\ design_matrix_columns.columns[2] = "response_num_6"
    /\ design_matrix_columns.columns[7] = "response_num_1"


\* ------------------------------------------------------------------- C11
\* C11: for any column list the three wedge identifiers give the same
\* outcome of make_contrasts (same keys and vectors, or the same error),
\* and so do the three ring identifiers.
C11_FamiliesShareDefinition ==
    op = "make_contrasts" =>
    LET WedgeFamily == {"wedge", "wedge_anti", "wedge_clock"}
        RingFamily == {"ring", "cont_ring", "exp_ring"}
    IN  /\ paradigm_id \in WedgeFamily =>
            \A q \in WedgeFamily :
                make_contrasts(q, design_matrix_columns) = result
        /\ paradigm_id \in RingFamily =>
            \A q \in RingFamily :
                make_contrasts(q, design_matrix_columns) = result

\* make_contrasts('cont_ring', ['peripheral', 'middle', 'foveal']) returned
\* the three ring contrasts.
C11_Witness ==
    /\ op = "make_contrasts"
    /\ paradigm_id = "cont_ring"
    /\ design_matrix_columns = Columns(<<"peripheral", "middle", "foveal">>)
    /\ result.status = "ok"
    /\ result.value["foveal"] = <<Zero, Zero, One>>
    /\ result = make_contrasts("ring", design_matrix_columns)


\* ------------------------------------------------------------------- C12
\* C12: for every identifier that is not a recognised one, strings that
\* only start with 'preference' included, make_contrasts raises the
\* unknown-paradigm error whose message names the identifier; it never
\* returns a mapping.
C12_UnknownIdentifierNamed ==
    (/\ op = "make_contrasts"
     \* the identifiers the paradigm definitions are documented under
     /\ paradigm_id \notin {Registry[i][1] : i \in DOMAIN Registry}) =>
        /\ result.status = "ValueError"
        /\ result.message = paradigm_id \o " Unknown paradigm"

\* ------------------------------------------------------------------- C13
\* C13: 'preference_d' and 'preference_ds' resolve to preferences with
\* domain d for the four domains, whose names are d_linear, d_constant and
\* d_quadratic, each the basis vector of the column of that name; any other
\* domain is rejected with an error.
C13_PreferenceDomains ==
    (op = "make_contrasts" /\ Prefix(paradigm_id, 11) = "preference_") =>
        LET Domains == {"painting", "house", "face", "food"}
            \* the text after 'preference_', its plural 's' removed
            tail == From(paradigm_id, 11)
            d == IF tail # "" /\ Suffix(tail, 1) = "s"
                 THEN Prefix(tail, Len(tail) - 1) ELSE tail
            names == {d \o "_linear", d \o "_constant", d \o "_quadratic"}
            cols == design_matrix_columns.columns
        IN  /\ d \notin Domains =>
                result.status \notin {"ok", "KeyError", "AssertionError"}
            /\ d \in Domains =>
                /\ result = preferences(design_matrix_columns, d)
                /\ DeclaredNames(paradigm_id) =
                    <<d \o "_linear", d \o "_constant", d \o "_quadratic">>
                /\ (design_matrix_columns = None) =>
                    /\ result.status = "ok"
                    /\ DOMAIN result.value = names
                /\ (design_matrix_columns # None /\ names \subseteq Range(cols))
                    => /\ result.status = "ok"
                       /\ DOMAIN result.value \ Bookkeeping = names
                       /\ \A n \in names : \A j \in 1..Len(cols) :
                            result.value[n][j] =
                                IF cols[j] = n THEN One ELSE Zero

\* make_contrasts('preference_foods', ['extra', 'food_linear',
\* 'food_constant', 'food_quadratic']) returned the three food contrasts.
C13_Witness ==
    /\ op = "make_contrasts"
    /\ paradigm_id = "preference_foods"
    /\ design_matrix_columns =
        Columns(<<"extra", "food_linear", "food_constant", "food_quadratic">>)
    /\ result.status = "ok"
    /\ result.value["food_constant"] = <<Zero, Zero, One, Zero>>


\* ------------------------------------------------------------------- C14
\* C14: whenever make_contrasts returns for a concrete column list of
\* length N, every value of the mapping is a vector of length N or a matrix
\* whose rows have length N; no value is a string.
C14_ValuesNumeric ==
    (/\ op = "make_contrasts"
     /\ design_matrix_columns # None
     /\ result.status = "ok") =>
        LET n == Len(design_matrix_columns.columns)
            \* how deep the tuples of a value nest: 0 for a string, 1 for a
            \* number <<sign, mantissa, exponent>>, 2 for a vector of
            \* numbers, 3 for a matrix
            Nesting(v) ==
                LET s == ToString(v)
                IN  Max({k \in 0..6 : /\ k <= Len(s)
                                      /\ \A i \in 1..k : SubSeq(s, i, i) = "<"})
                        \div 2
            IsVector(v) == Nesting(v) = 2 /\ Len(v) = n
            IsMatrix(v) == Nesting(v) = 3 /\ \A r \in 1..Len(v) : IsVector(v[r])
        IN  \A k \in DOMAIN result.value :
                \/ IsVector(result.value[k])
                \/ IsMatrix(result.value[k])


\* ------------------------------------------------------------------- C15
\* C15: whenever a paradigm definition returns for a concrete column list,
\* the contrast set holds 'derivatives' if some column name ends in
\* '_derivative', and 'effects_interest' if some column is neither a
\* nuisance column nor a derivative column.
C15_BookkeepingPresent ==
    (/\ op \in {"make_contrasts", "retino"}
     /\ paradigm_id \in Recognised \cup {""}
     /\ design_matrix_columns # None
     /\ result.status = "ok") =>
        LET cols == design_matrix_columns.columns
            EndsInDerivative(name) ==
                Len(name) >= 11 /\ SubSeq(name, Len(name) - 10, Len(name))
                                        = "_derivative"
        IN  /\ (\E i \in 1..Len(cols) : EndsInDerivative(cols[i]))
                => "derivatives" \in DOMAIN result.value
            /\ (\E i \in 1..Len(cols) :
                    cols[i] \notin nuisance /\ ~EndsInDerivative(cols[i]))
                => "effects_interest" \in DOMAIN result.value


\* ------------------------------------------------------------------- C16
\* C16: in self_localizer 'recognition_hit' is the sum of the basis
\* vectors of 'recognition_other_hit' and 'recognition_self_hit' when both
\* columns exist, else 'recognition_self_hit' alone if it exists, else
\* 'recognition_other_hit' alone if it exists, else
\* 'recognition_other_no_response'; with none of them the call fails with
\* a lookup error.
C16_RecognitionHitFallback ==
    (/\ \/ op = "self_localizer"
        \/ op = "make_contrasts" /\ paradigm_id = "self"
     /\ design_matrix_columns # None) =>
        LET cols == design_matrix_columns.columns
            has(k) == k \in Range(cols)
            \* the sum of the basis vectors of the columns of `labels`
            BasisSum(c, labels) ==
                [j \in 1..Len(c) |-> IF c[j] \in labels THEN One ELSE Zero]
            expected ==
                IF has("recognition_other_hit") /\ has("recognition_self_hit")
                THEN BasisSum(cols, {"recognition_other_hit",
                                     "recognition_self_hit"})
                ELSE IF has("recognition_self_hit")
                     THEN BasisSum(cols, {"recognition_self_hit"})
                ELSE IF has("recognition_other_hit")
                     THEN BasisSum(cols, {"recognition_other_hit"})
                ELSE BasisSum(cols, {"recognition_other_no_response"})
        IN  /\ (~has("recognition_other_hit") /\ ~has("recognition_self_hit")
                /\ ~has("recognition_other_no_response"))
                    => result.status = "KeyError"
            /\ result.status \in {"ok", "KeyError"}
            /\ result.status = "ok"
                    => result.value["recognition_hit"] = expected

\* self_localizer returned with 'recognition_hit' resolved to the last
\* fallback: neither hit column is there, 'recognition_other_no_response'
\* is.
C16_Witness ==
    /\ op = "self_localizer"
    /\ result.status = "ok"
    /\ design_matrix_columns.columns =
        <<"encode_self", "encode_other", "instructions", "false_alarm",
          "recognition_self_miss", "recognition_other_miss",
          "recognition_other_no_response">>
    /\ result.value["recognition_hit"] =
        <<Zero, Zero, Zero, Zero, Zero, Zero, One>>


\* ------------------------------------------------------------------- C17
\* C17: a paradigm without a fallback chain, called with a concrete column
\* list that lacks one of the elementary labels it reads, fails with a
\* lookup error and returns no contrast set.
C17_MissingColumnFails ==
    (/\ op = "make_contrasts"
     \* all paradigms but the self localizer, which has fallback chains
     /\ paradigm_id \in Recognised \ {"self"}
     /\ design_matrix_columns # None
     /\ \E label \in Range(Design(paradigm_id)) :
            \* the hcp_* definitions look the labels up in lower case
            IF paradigm_id \in {"hcp_emotion", "hcp_gambling", "hcp_language",
                                "hcp_motor", "hcp_wm", "hcp_relational",
                                "hcp_social"}
            THEN \A i \in 1..Len(design_matrix_columns.columns) :
                    Lower(design_matrix_columns.columns[i]) # label
            ELSE label \notin Range(design_matrix_columns.columns)) =>
        /\ result.status = "KeyError"
        /\ result.value = EmptyDict

\* make_contrasts('stop_signal', ['stop', 'conf_19']) failed with a lookup
\* error: the column 'go' is missing.
C17_Witness ==
    /\ op = "make_contrasts"
    /\ paradigm_id = "stop_signal"
    /\ design_matrix_columns = Columns(<<"stop", "conf_19">>)
    /\ result = Raise("KeyError")


\* ------------------------------------------------------------------- C19
\* C19: anova keeps the catalog rows whose acquisition is 'ap' or 'pa';
\* for S subjects, C contrasts and A acquisition directions among them the
\* design matrix has (S-1)+(C-1)+(A-1)+1 columns: the one-hot columns of
\* the subjects, of the contrasts and of the acquisitions, each factor in
\* sorted label order without its last category, then an all-ones
\* intercept; the degrees of freedom are S-1, C-1 and A-1.
C19_AnovaDesign ==
    op = "anova" =>
        LET OfInterest(row) == row.acquisition \in {"ap", "pa"}
            kept == SelectSeq(db, OfInterest)
            n == Len(kept)
            subjects == {kept[r].subject : r \in 1..n}
            contrasts == {kept[r].contrast : r \in 1..n}
            acquisitions == {kept[r].acquisition : r \in 1..n}
            S == Cardinality(subjects)
            C == Cardinality(contrasts)
            A == Cardinality(acquisitions)
            v == result.value
            Last(set) == CHOOSE m \in set : \A x \in set \ {m} : StrLess(x, m)
            \* q lists the labels of `set` but the last, in increasing order
            Coded(q, set) ==
                /\ Range(q) = set \ {Last(set)}
                /\ \A i \in 1..(Len(q) - 1) : StrLess(q[i], q[i + 1])
            Hot(b) == IF b THEN One ELSE Zero
        IN  n > 0 =>
            /\ result.status = "ok"
            /\ Len(v.labels) = (S - 1) + (C - 1) + (A - 1) + 1
            /\ Coded(SubSeq(v.labels, 1, S - 1), subjects)
            /\ Coded(SubSeq(v.labels, S, S + C - 2), contrasts)
            /\ Coded(SubSeq(v.labels, S + C - 1, S + C + A - 3), acquisitions)
            /\ v.labels[S + C + A - 2] = "intercept"
            /\ Len(v.design_matrix) = n
            /\ \A r \in 1..n :
                /\ Len(v.design_matrix[r]) = Len(v.labels)
                /\ \A j \in 1..Len(v.labels) :
                    v.design_matrix[r][j] =
                        IF j <= S - 1
                            THEN Hot(kept[r].subject = v.labels[j])
                        ELSE IF j <= S + C - 2
                            THEN Hot(kept[r].contrast = v.labels[j])
                        ELSE IF j <= S + C + A - 3
                            THEN Hot(kept[r].acquisition = v.labels[j])
                        ELSE One
            /\ v.dof_subject = S - 1
            /\ v.dof_contrast = C - 1
            /\ v.dof_acq = A - 1

\* anova returned for a catalog of three maps of interest with three
\* subjects, two contrasts and two directions, none in sorted order: the
\* columns are sub-01, sub-02, go, ap and the intercept.
C19_Witness ==
    /\ op = "anova"
    /\ db = <<[subject |-> "sub-11", contrast |-> "stop", acquisition |-> "pa"],
              [subject |-> "sub-02", contrast |-> "go", acquisition |-> "ap"],
              [subject |-> "sub-01", contrast |-> "go", acquisition |-> "pa"]>>
    /\ result.status = "ok"
    /\ result.value.labels = <<"sub-01", "sub-02", "go", "ap", "intercept">>
    /\ result.value.design_matrix[1] = <<Zero, Zero, Zero, Zero, One>>
    /\ result.value.dof_subject = 2

\* ------------------------------------------------------------------- C20
\* C20: the three blocks of identity rows anova uses as the subject,
\* contrast and acquisition contrasts select the columns of their own
\* factor: they are pairwise disjoint, none holds the intercept column,
\* together they cover every other column, and the acquisition block
\* [-1-dof_acq : -1] is made of the columns after the subject and contrast
\* blocks.
C20_BlocksPartitionColumns ==
    (op = "anova" /\ result.status = "ok") =>
        LET v == result.value
            n == Len(v.labels)
            \* the columns an identity row selects
            Selected(block) ==
                {j \in 1..n : \E i \in 1..Len(block) : block[i][j] # Zero}
            IdentityRows(block) ==
                \A i \in 1..Len(block) :
                    /\ Len(block[i]) = n
                    /\ \E j \in 1..n :
                        block[i] = [k \in 1..n |-> IF k = j THEN One ELSE Zero]
            sub == Selected(v.subject_contrast)
            con == Selected(v.contrast_contrast)
            acq == Selected(v.acq_contrast)
            OfInterest(row) == row.acquisition \in {"ap", "pa"}
            kept == SelectSeq(db, OfInterest)
        IN  /\ IdentityRows(v.subject_contrast)
            /\ IdentityRows(v.contrast_contrast)
            /\ IdentityRows(v.acq_contrast)
            /\ Cardinality(sub) = Len(v.subject_contrast)
            /\ Cardinality(con) = Len(v.contrast_contrast)
            /\ Cardinality(acq) = Len(v.acq_contrast)
            /\ sub \cap con = {} /\ sub \cap acq = {} /\ con \cap acq = {}
            /\ n \notin sub \cup con \cup acq
            /\ sub \cup con \cup acq = 1..(n - 1)
            /\ sub = 1..v.dof_subject
            /\ con = (v.dof_subject + 1)..(v.dof_subject + v.dof_contrast)
            /\ acq = (v.dof_subject + v.dof_contrast + 1)..(n - 1)
            /\ \A j \in sub : \E r \in 1..Len(kept) :
                    kept[r].subject = v.labels[j]
            /\ \A j \in con : \E r \in 1..Len(kept) :
                    kept[r].contrast = v.labels[j]
            /\ \A j \in acq : \E r \in 1..Len(kept) :
                    kept[r].acquisition = v.labels[j]

\* anova returned with a block of two subject rows, a block of one
\* contrast row and a block of one acquisition row, on columns 1-2, 3 and
\* 4 of five.
C20_Witness ==
    /\ op = "anova"
    /\ result.status = "ok"
    /\ Len(result.value.labels) = 5
    /\ Len(result.value.subject_contrast) = 2
    /\ result.value.contrast_contrast = <<<<Zero, Zero, One, Zero, Zero>>>>
    /\ result.value.acq_contrast = <<<<Zero, Zero, Zero, One, Zero>>>>


\* ------------------------------------------------------------------- C21
\* C21: anova floors each of its three effect maps at -8.2095: a voxel
\* whose z-score v is above -8.2095 keeps v, any other voxel takes
\* -8.2095, so the returned map is max(v, -8.2095) at every voxel.
C21_MapsFloored ==
    (op = "anova" /\ result.status = "ok") =>
        LET v == result.value
            floor == Rat(-82095, 10000)
            Above(x) == RSub(x, floor)[1] > 0
            Floored(z, map) ==
                /\ Len(map) = Len(z)
                /\ \A i \in 1..Len(z) :
                        map[i] = IF Above(z[i]) THEN z[i] ELSE floor
        IN  /\ Floored(v.z_score.subject, v.subject_map)
            /\ Floored(v.z_score.contrast, v.contrast_map)
            /\ Floored(v.z_score.acq, v.acq_map)


\* ------------------------------------------------------------------- C22
\* C22: when the design matrix anova builds is rank deficient (its
\* smallest singular value is zero), the call reports it: the singular
\* values are printed or are part of what it returns.
C22_SingularDesignReported ==
    (op = "anova" /\ result.status = "ok") =>
        LET v == result.value
            X == v.design_matrix
            n == Len(X)
            p == Len(v.labels)
            Weights(k) == [1..k -> {-1, 0, 1}] \ {[i \in 1..k |-> 0]}
            Sum(f, k) == IF k = 1 THEN f[1]
                         ELSE IF k = 2 THEN f[1] + f[2]
                         ELSE IF k = 3 THEN f[1] + f[2] + f[3]
                         ELSE IF k = 4 THEN f[1] + f[2] + f[3] + f[4]
                         ELSE f[1] + f[2] + f[3] + f[4] + f[5]
            \* some combination of the columns is zero, and some
            \* combination of the rows: the rank is below min(n, p)
            ColumnsDependent ==
                \E w \in Weights(p) : \A r \in 1..n :
                    Sum([j \in 1..p |-> w[j] * X[r][j][1]], p) = 0
            RowsDependent ==
                \E w \in Weights(n) : \A j \in 1..p :
                    Sum([r \in 1..n |-> w[r] * X[r][j][1]], n) = 0
        IN  (ColumnsDependent /\ RowsDependent) =>
                \/ v.printed # <<>>
                \/ "singular" \in DOMAIN v


\* ------------------------------------------------------------------- C23
\* C23: in self_localizer 'recognition_self_hit' is the basis vector of
\* the column recognition_self_hit if present, else of
\* recognition_self_miss; 'recognition_other_hit' that of
\* recognition_other_hit, else of recognition_other_miss;
\* 'correct_rejection' that of correct_rejection, else of false_alarm; the
\* call fails with a lookup error when neither column of a pair exists,
\* and when encode_self, encode_other, instructions or false_alarm is
\* missing.
C23_PrimaryThenFallback ==
    (/\ \/ op = "self_localizer"
        \/ op = "make_contrasts" /\ paradigm_id = "self"
     /\ design_matrix_columns # None) =>
        LET cols == design_matrix_columns.columns
            has(k) == k \in Range(cols)
            Basis(label) ==
                [j \in 1..Len(cols) |-> IF cols[j] = label THEN One ELSE Zero]
            Resolved(primary, fallback) ==
                IF has(primary) THEN Basis(primary) ELSE Basis(fallback)
            Neither(primary, fallback) == ~has(primary) /\ ~has(fallback)
        IN  /\ (\/ Neither("recognition_self_hit", "recognition_self_miss")
                \/ Neither("recognition_other_hit", "recognition_other_miss")
                \/ Neither("correct_rejection", "false_alarm")
                \/ \E base \in {"encode_self", "encode_other", "instructions",
                                "false_alarm"} : ~has(base))
                    => result.status = "KeyError"
            /\ result.status = "ok" =>
                /\ result.value["recognition_self_hit"] =
                    Resolved("recognition_self_hit", "recognition_self_miss")
                /\ result.value["recognition_other_hit"] =
                    Resolved("recognition_other_hit", "recognition_other_miss")
                /\ result.value["correct_rejection"] =
                    Resolved("correct_rejection", "false_alarm")

\* self_localizer returned with the three contrasts resolved to their
\* fallback columns: none of the primary columns is there.
C23_Witness ==
    /\ op = "self_localizer"
    /\ result.status = "ok"
    /\ design_matrix_columns.columns =
        <<"encode_self", "encode_other", "instructions", "false_alarm",
          "recognition_self_miss", "recognition_other_miss",
          "recognition_other_no_response">>
    /\ result.value["recognition_self_hit"] =
        <<Zero, Zero, Zero, Zero, One, Zero, Zero>>
    /\ result.value["recognition_other_hit"] =
        <<Zero, Zero, Zero, Zero, Zero, One, Zero>>
    /\ result.value["correct_rejection"] =
        <<Zero, Zero, Zero, One, Zero, Zero, Zero>>


\* ------------------------------------------------------------------- C24
\* C24: for spatial_navigation the columns 'experimental',
\* 'pointing_phase' and 'control' are sufficient: the call returns with
\* 'pointing' the basis vector of 'pointing_phase' and 'experimental' and
\* 'control' those of their own columns; no column 'pointing' is needed.
C24_PointingPhaseSuffices ==
    (/\ op = "make_contrasts"
     /\ paradigm_id = "spatial_navigation"
     /\ design_matrix_columns # None
     /\ {"experimental", "pointing_phase", "control"}
            \subseteq Range(design_matrix_columns.columns)) =>
        LET cols == design_matrix_columns.columns
            Basis(label) ==
                [j \in 1..Len(cols) |-> IF cols[j] = label THEN One ELSE Zero]
        IN  /\ result.status = "ok"
            /\ result.value["pointing"] = Basis("pointing_phase")
            /\ result.value["experimental"] = Basis("experimental")
            /\ result.value["control"] = Basis("control")


\* C25: the hcp_* paradigms match column labels without regard to letter
\* case: when no two labels become equal after lower-casing, a design whose
\* labels are written in another letter case yields the same named contrasts
\* as the design with every label in lower case.
C25_CaseInsensitiveLabels ==
    (/\ op = "make_contrasts"
     /\ paradigm_id \in {"hcp_emotion", "hcp_gambling", "hcp_language",
                         "hcp_motor", "hcp_wm", "hcp_relational",
                         "hcp_social"}
     /\ design_matrix_columns # None) =>
        LET cols == design_matrix_columns.columns
            lowered == [i \in 1..Len(cols) |-> Lower(cols[i])]
            lower_case == make_contrasts(paradigm_id, Columns(lowered))
        IN  Cardinality({lowered[i] : i \in 1..Len(cols)}) = Len(cols) =>
                /\ result.status = lower_case.status
                /\ result.status = "ok" =>
                    \A name \in Range(DeclaredNames(paradigm_id)) :
                        /\ name \in DOMAIN result.value
                        /\ name \in DOMAIN lower_case.value
                        /\ result.value[name] = lower_case.value[name]

\* hcp_emotion was called on the design in capitals with a column it does
\* not read, and found its two columns.
C25_Witness ==
    /\ op = "make_contrasts"
    /\ paradigm_id = "hcp_emotion"
    /\ design_matrix_columns # None
    /\ \E i, j, k \in 1..3 :
        /\ Len(design_matrix_columns.columns) = 3
        /\ design_matrix_columns.columns[i] = "FACE"
        /\ design_matrix_columns.columns[j] = "SHAPE"
        /\ design_matrix_columns.columns[k] = "RÉPONSE_ÉTÉ"
        /\ result.status = "ok"
        /\ result.value["face"] = Eye(3, i)
        /\ result.value["face-shape"][j] = RNeg(One)
        /\ result.value["face-shape"][k] = Zero


\* C26: whenever a returned contrast set holds both directions of a
\* comparison, the two vectors are exact negations of each other, weight by
\* weight: the five archi_standard pairs, the hcp_emotion, hcp_gambling,
\* hcp_language and hcp_wm pairs, ignore-stop/stop-ignore and the pairs of the
\* two MTT definitions.
C26_BothDirectionsNegated ==
    (/\ op = "make_contrasts"
     /\ design_matrix_columns # None
     /\ result.status = "ok") =>
        LET Directions == {
                <<"left-right_button_press", "right-left_button_press">>,
                <<"listening-reading", "reading-listening">>,
                <<"motor-cognitive", "cognitive-motor">>,
                <<"horizontal-vertical", "vertical-horizontal">>,
                <<"computation-sentences", "sentences-computation">>,
                <<"face-shape", "shape-face">>,
                <<"punishment-reward", "reward-punishment">>,
                <<"math-story", "story-math">>,
                <<"2back-0back", "0back-2back">>,
                <<"ignore-stop", "stop-ignore">>,
                <<"we_all_space-time_cue", "we_all_time-space_cue">>,
                <<"we_space-time_event", "we_time-space_event">>,
                <<"westside-eastside_event", "eastside-westside_event">>,
                <<"we_before-after_event", "we_after-before_event">>,
                <<"sn_all_space-time_cue", "sn_all_time-space_cue">>,
                <<"sn_space-time_event", "sn_time-space_event">>,
                <<"northside-southside_event", "southside-northside_event">>,
                <<"sn_before-after_event", "sn_after-before_event">>}
        IN  \A pair \in Directions :
                (pair[1] \in DOMAIN result.value
                    /\ pair[2] \in DOMAIN result.value) =>
                    LET forth == result.value[pair[1]]
                        back == result.value[pair[2]]
                    IN  /\ Len(forth) = Len(back)
                        /\ \A i \in 1..Len(forth) :
                            RAdd(forth[i], back[i]) = Zero

C26_Witness ==
    /\ op = "make_contrasts"
    /\ paradigm_id = "MTTWE"
    /\ design_matrix_columns # None
    /\ result.status = "ok"
    /\ "we_before-after_event" \in DOMAIN result.value
    /\ "we_after-before_event" \in DOMAIN result.value
    /\ \E i \in 1..Len(result.value["we_before-after_event"]) :
        /\ result.value["we_before-after_event"][i] = One
        /\ result.value["we_after-before_event"][i] = RNeg(One)


\* C27: every averaged comparison contrast is balanced, its weights add up
\* to zero (to the precision of a float64: .8 - .2 - .2 - .2 - .2 is 1.1e-16
\* in doubles): in audio '<x>-others' is x minus the mean of the other five sound
\* categories and 'mean-silence' the mean of the six categories minus
\* silence; in hcp_motor '<x>-avg' is x minus the mean of the five effectors;
\* in hcp_wm '<x>-avg' is the mean of the two x columns minus the mean of all
\* eight.
C27_AveragedContrastsBalanced ==
    (/\ op = "make_contrasts"
     /\ paradigm_id \in {"audio", "hcp_motor", "hcp_wm"}
     /\ design_matrix_columns # None
     /\ result.status = "ok") =>
        LET cols == design_matrix_columns.columns
            Basis(label) ==
                [j \in 1..Len(cols) |->
                    IF Lower(cols[j]) = label THEN One ELSE Zero]
            MeanOf(labels) ==
                [j \in 1..Len(cols) |->
                    IF Lower(cols[j]) \in labels
                    THEN Rat(1, Cardinality(labels)) ELSE Zero]
            Sounds == {"animal", "music", "nature", "speech", "tool", "voice"}
            Effectors == {"left_hand", "right_hand", "left_foot",
                          "right_foot", "tongue"}
            Categories == {"body", "face", "place", "tools"}
            Averaged ==
                CASE paradigm_id = "audio" ->
                        {x \o "-others" : x \in Sounds} \cup {"mean-silence"}
                  [] paradigm_id = "hcp_motor" ->
                        {x \o "-avg" : x \in Effectors}
                  [] paradigm_id = "hcp_wm" ->
                        {x \o "-avg" : x \in Categories}
            Expected(x) ==
                CASE paradigm_id = "audio" ->
                        Basis(x) (-) MeanOf(Sounds \ {x})
                  [] paradigm_id = "hcp_motor" ->
                        Basis(x) (-) MeanOf(Effectors)
                  [] paradigm_id = "hcp_wm" ->
                        MeanOf({"2back_" \o x, "0back_" \o x})
                            (-) MeanOf({b \o c : b \in {"2back_", "0back_"},
                                               c \in Categories})
        IN  /\ \A name \in Averaged :
                /\ name \in DOMAIN result.value
                /\ Close(RSum(result.value[name]), Zero)
            /\ \A x \in Sounds \cup Effectors \cup Categories :
                (x \o "-others" \in Averaged =>
                    result.value[x \o "-others"] = Expected(x))
                /\ (x \o "-avg" \in Averaged =>
                    result.value[x \o "-avg"] = Expected(x))
            /\ paradigm_id = "audio" =>
                result.value["mean-silence"] = MeanOf(Sounds) (-) Basis("silence")


\* C28: after both extensions are applied to a mapping without the reserved
\* keys, every column is in exactly one of three classes: it is a nuisance
\* column, or it has exactly one row in 'derivatives', or it has exactly one
\* row in 'effects_interest'; the rows of the two matrices and the nuisance
\* columns add up to the number of columns.  Checked on the mapping a caller
\* hands over, extended by both operations, and on what make_contrasts
\* returns for the definitions that end with both extensions.
C28_ColumnsPartitioned ==
    LET Partitioned(cols, v) ==
            LET n == Len(cols)
                Matrix(key) == IF key \in DOMAIN v THEN v[key] ELSE <<>>
                RowsOf(key, i) ==
                    Cardinality({k \in 1..Len(Matrix(key)) :
                        Matrix(key)[k] =
                            [j \in 1..n |-> IF j = i THEN One ELSE Zero]})
                Nuisance == {i \in 1..n : cols[i] \in nuisance}
            IN  /\ \A i \in 1..n :
                    \/ /\ i \in Nuisance
                       /\ RowsOf("derivatives", i) = 0
                       /\ RowsOf("effects_interest", i) = 0
                    \/ /\ i \notin Nuisance
                       /\ RowsOf("derivatives", i) = 1
                       /\ RowsOf("effects_interest", i) = 0
                    \/ /\ i \notin Nuisance
                       /\ RowsOf("derivatives", i) = 0
                       /\ RowsOf("effects_interest", i) = 1
                /\ Len(Matrix("effects_interest")) + Len(Matrix("derivatives"))
                        + Cardinality(Nuisance) = n
    IN  /\ (op = "prepare" /\ DOMAIN contrast \cap Bookkeeping = {}) =>
            LET cols == design_matrix_columns.columns
            IN  /\ Partitioned(cols, _append_effects_interest_contrast(cols,
                        _append_derivative_contrast(cols, contrast)))
                /\ Partitioned(cols, _append_derivative_contrast(cols,
                        _append_effects_interest_contrast(cols, contrast)))
        /\ (/\ op = "make_contrasts"
            /\ paradigm_id \in Recognised
                    \ {"colour", "MTTWE", "MTTNS", "clips_trn"}
            /\ design_matrix_columns # None
            /\ result.status = "ok") =>
                Partitioned(design_matrix_columns.columns, result.value)

C28_Witness ==
    /\ op = "make_contrasts"
    /\ paradigm_id = "audio"
    /\ design_matrix_columns # None
    /\ result.status = "ok"
    /\ "x_derivative" \in Range(design_matrix_columns.columns)
    /\ "derivatives" \in DOMAIN result.value
    /\ Len(result.value["derivatives"]) = 1
    /\ Len(result.value["effects_interest"]) = 7
    /\ Len(design_matrix_columns.columns) = 8


\* C29: make_contrasts never returns an empty mapping: for every identifier
\* and every column argument, None or a list, the call either raises an error
\* or returns a mapping with at least one contrast name.
C29_NeverEmptyMapping ==
    op = "make_contrasts" =>
        \/ result.status # "ok"
        \/ DOMAIN result.value # {}


\* C30: the named contrasts depend only on the columns the paradigm reads:
\* with columns the definition does not read (nuisance, derivative or
\* unrelated labels) inserted at any position, the call ends as it does
\* without them, and each named contrast, of any paradigm, is a vector with
\* weight 0 at the inserted positions and the weights of the call without
\* them on the columns read.
C30_UnreadColumnsIgnored ==
    (/\ op = "make_contrasts"
     /\ paradigm_id \in Recognised
     /\ design_matrix_columns # None) =>
        LET cols == design_matrix_columns.columns
            \* the hcp_* definitions read the labels in lower case
            IsRead(label) ==
                IF paradigm_id \in {"hcp_emotion", "hcp_gambling",
                                    "hcp_language", "hcp_motor", "hcp_wm",
                                    "hcp_relational", "hcp_social"}
                THEN Lower(label) \in Range(Design(paradigm_id))
                ELSE label \in Range(Design(paradigm_id))
            read == SelectSeq([i \in 1..Len(cols) |-> i],
                              LAMBDA i : IsRead(cols[i]))
            without == make_contrasts(paradigm_id,
                            Columns([k \in 1..Len(read) |-> cols[read[k]]]))
            Named(v) == DOMAIN v \ Bookkeeping
            \* a vector of numbers <<sign, mantissa, exponent>>, not a string
            IsVector(v) ==
                LET s == ToString(v)
                IN  /\ Len(s) >= 5
                    /\ SubSeq(s, 1, 4) = "<<<<"
                    /\ SubSeq(s, 5, 5) # "<"
        IN  Len(read) < Len(cols) =>
                /\ result.status = without.status
                /\ result.status = "ok" =>
                    /\ Named(result.value) = Named(without.value)
                    /\ \A name \in Named(result.value) :
                        /\ IsVector(result.value[name])
                        /\ Len(result.value[name]) = Len(cols)
                        /\ \A i \in 1..Len(cols) :
                            result.value[name][i] =
                                IF IsRead(cols[i])
                                THEN without.value[name][
                                        CHOOSE k \in 1..Len(read) : read[k] = i]
                                ELSE Zero

=============================================================================
